---- MODULE Spec2Model ----
(***************************************************************************)
(* Classification engine of the Yishun survey dashboard.                   *)
(*                                                                         *)
(* A dataset is modelled by one survey record: a function from column      *)
(* names to values.  Raw question columns hold an integer code, NaN        *)
(* (missing) or Str (a non-numeric cell).  The add_<CF>_column functions   *)
(* add a label column to the dataset they are given.                       *)
(***************************************************************************)
EXTENDS Integers, Sequences, FiniteSets, TLC

\* df:  the dataset object handed to a function (one record; a sequence of
\*      records for the cross tables)
\* ret: the dataset or table the last call returned
\* pc:  number of startup lines of app.py executed so far
VARIABLES df, ret, pc
vars == <<df, ret, pc>>

(***************************************************************************)
(* Values                                                                  *)
(***************************************************************************)
\* Python None: the "unscored" result of a classifier, the result of
\* _to_int / row.get on an unusable or absent cell.
None == -1
\* pandas NaN: a missing cell of the loaded dataset.
NaN == -2
\* a cell holding text that int() cannot parse.
Str == -3
\* no dataset has been returned yet.
NoFrame == <<>>
\* the call did not return: row[col] on an absent column raised KeyError.
KeyError == [raised |-> "KeyError"]

\* Number of cells of an input record that may deviate from the two
\* fill values of the record (see IsInput).
MaxEdits == 1

Range(s) == {s[i] : i \in DOMAIN s}

isna(x) == x = NaN \/ x = None

\* value of row.get(col): None when the column is absent
Get(row, c) == IF c \in DOMAIN row THEN row[c] ELSE None

\* df[col] = value on a one-record dataset
SetCol(d, c, v) == [x \in (DOMAIN d) \cup {c} |-> IF x = c THEN v ELSE d[x]]

_to_int(x) == IF isna(x) \/ x = Str THEN None ELSE x

(***************************************************************************)
(* Input records: the cells cols[1..j] hold b1, the others b2, and at most *)
(* MaxEdits cells hold some other value of V.                              *)
(***************************************************************************)
RECURSIVE SubsetsUpTo(_, _)
SubsetsUpTo(C, k) ==
    IF k = 0 THEN {{}}
    ELSE LET P == SubsetsUpTo(C, k - 1)
         IN  P \cup {S \cup {c} : S \in P, c \in C}

Pos(cols, c) == CHOOSE i \in 1..Len(cols) : cols[i] = c
PosOf(cols) == [c \in Range(cols) |-> Pos(cols, c)]

\* the record over cols with fill values b1, b2 split at j and the edits e
Row(cols, pos, j, b1, b2, e) ==
    [c \in Range(cols) |->
        IF c \in DOMAIN e THEN e[c]
        ELSE IF pos[c] <= j THEN b1 ELSE b2]

\* d is one of the input records over cols with cell values in V
\* (pos is PosOf(cols))
IsInput(d, cols, pos, V) ==
    \E j \in 0..Len(cols), b1 \in V, b2 \in V :
        \E D \in SubsetsUpTo(Range(cols), MaxEdits) :
            \E e \in [D -> V] : d = Row(cols, pos, j, b1, b2, e)

\* d is a record over cols whose cells cols[1..j] hold b1 and the others b2
IsSplit(d, cols, pos, V) ==
    \E j \in 0..Len(cols), b1 \in V, b2 \in V :
        d = Row(cols, pos, j, b1, b2, <<>>)

(***************************************************************************)
(* A. Functional Assessment                                                *)
(***************************************************************************)
Q155_cols == <<"Q155_i", "Q155_ii", "Q155_iii", "Q155_iv", "Q155_v", "Q155_vi">>
Q167_cols == <<"Q167_i", "Q167_ii", "Q167_iii", "Q167_iv", "Q167_v", "Q167_vi", "Q167_vii">>

\* the third branch taken for any record that is not "all ADL = 2"
compute_FA_category_anyADL(row) ==
    LET ADL_all_2  == \A c \in Range(Q155_cols) : row[c] = 2
        IADL_any_1 == \E c \in Range(Q167_cols) : row[c] = 1
        IADL_all_2 == \A c \in Range(Q167_cols) : row[c] = 2
    IN  IF ADL_all_2 /\ IADL_all_2 THEN 0
        ELSE IF ADL_all_2 /\ IADL_any_1 THEN 1
        ELSE IF ~ADL_all_2 THEN 2
        ELSE None

compute_FA_category(row) ==
    LET ADL_all_2  == \A c \in Range(Q155_cols) : row[c] = 2
        IADL_any_1 == \E c \in Range(Q167_cols) : row[c] = 1
        IADL_all_2 == \A c \in Range(Q167_cols) : row[c] = 2
    IN  IF ADL_all_2 /\ IADL_all_2 THEN 0
        ELSE IF ADL_all_2 /\ IADL_any_1 THEN 1
        ELSE IF IADL_any_1 THEN 2
        ELSE None

\* mutates the dataset it is given and returns that same object;
\* row[Q155_cols] / row[Q167_cols] raise when one of the columns is absent
add_FA_column ==
    /\ IF Range(Q155_cols) \cup Range(Q167_cols) \subseteq DOMAIN df
       THEN /\ df' = SetCol(df, "Functional_Assessment", compute_FA_category(df))
            /\ ret' = df'
       ELSE /\ df' = df
            /\ ret' = KeyError
    /\ UNCHANGED pc

FAVals == {NaN, 1, 2, 777, 999}

FA_COLS == Q155_cols \o Q167_cols
FA_POS == PosOf(FA_COLS)

InitFA ==
    /\ IsInput(df, FA_COLS, FA_POS, FAVals)
    /\ ret = NoFrame
    /\ pc = 0

NextFA == add_FA_column

SpecFA == InitFA /\ [][NextFA]_vars

\* ---- claims about Functional Assessment ----
FA_done == "Functional_Assessment" \in DOMAIN df
ADLAll2 == \A c \in Range(Q155_cols) : df[c] = 2
ADLSome1 == \E c \in Range(Q155_cols) : df[c] = 1
IADLAll2 == \A c \in Range(Q167_cols) : df[c] = 2
IADLSome1 == \E c \in Range(Q167_cols) : df[c] = 1

\* C4: once add_FA_column has run, the label is 0 when all ADL and all IADL
\* items are 2, 1 when all ADL items are 2 and some IADL item is 1, and 2
\* whenever some ADL item is 1, whatever the IADL items hold.
C4_FA_AnyADLIs2 ==
    FA_done =>
        /\ (ADLAll2 /\ IADLAll2) => df["Functional_Assessment"] = 0
        /\ (ADLAll2 /\ IADLSome1) => df["Functional_Assessment"] = 1
        /\ ADLSome1 => df["Functional_Assessment"] = 2

Q107_cols == <<"Q107_1", "Q107_2", "Q107_3", "Q107_4">>
Q107_rehab_cols == <<"Q107_5", "Q107_6", "Q107_7">>

\* the shared body of compute_nursing_category and compute_rehab_category
\* over the given task columns
count_category(row, cols) ==
    LET valid == {c \in Range(cols) : row[c] \in {0, 1}}
        count_mentioned == Cardinality({c \in valid : row[c] = 1})
    IN  IF Cardinality(valid) = 0 THEN None
        ELSE IF count_mentioned = 0 THEN 0
        ELSE IF count_mentioned = 1 THEN 1
        ELSE 2

\* 999 kept as a valid "not mentioned" answer
compute_nursing_category_999valid(row) ==
    LET valid == {c \in Range(Q107_cols) : row[c] \in {0, 1, 999}}
        count_mentioned == Cardinality({c \in valid : row[c] = 1})
    IN  IF Cardinality(valid) = 0 THEN None
        ELSE IF count_mentioned = 0 THEN 0
        ELSE IF count_mentioned = 1 THEN 1
        ELSE 2

compute_nursing_category(row) == count_category(row, Q107_cols)

compute_rehab_category(row) == count_category(row, Q107_rehab_cols)

\* pd.to_numeric(errors="coerce") on one cell
to_numeric(x) == IF isna(x) \/ x = Str THEN NaN ELSE x

\* 999 replaced by 1, "mentioned", instead of 0
impute_999_to_1(d, cols) ==
    [c \in DOMAIN d |->
        IF c \in Range(cols)
        THEN (IF to_numeric(d[c]) = 999 THEN 1 ELSE to_numeric(d[c]))
        ELSE d[c]]

\* Series.replace(999, 0) after to_numeric, on the columns that exist
impute_999_to_0(d, cols) ==
    [c \in DOMAIN d |->
        IF c \in Range(cols)
        THEN (IF to_numeric(d[c]) = 999 THEN 0 ELSE to_numeric(d[c]))
        ELSE d[c]]

\* row[Q107_cols] raises when one of the columns is absent
add_nursing_column ==
    /\ IF Range(Q107_cols) \subseteq DOMAIN df
       THEN /\ df' = SetCol(df, "Nursing_Needs", compute_nursing_category(df))
            /\ ret' = df'
       ELSE /\ df' = df
            /\ ret' = KeyError
    /\ UNCHANGED pc

add_rehab_column ==
    /\ df' = SetCol(df, "Rehab_Needs", compute_rehab_category(df))
    /\ ret' = df'
    /\ UNCHANGED pc

\* the dataset add_nursing_column_imputed returns for d
nursing_frame_imputed(d) ==
    LET df_imp == impute_999_to_0(d, Q107_cols)
    IN  SetCol(df_imp, "Nursing_Needs_Imputed", compute_nursing_category(df_imp))

\* the dataset add_rehab_column_imputed returns for d
rehab_frame_imputed(d) ==
    LET df_imp == impute_999_to_0(d, Q107_rehab_cols)
    IN  SetCol(df_imp, "Rehab_Needs_Imputed", compute_rehab_category(df_imp))

\* the imputed label written into the dataset that was passed in
add_nursing_column_imputed_inplace ==
    /\ df' = nursing_frame_imputed(df)
    /\ ret' = df'
    /\ UNCHANGED pc

\* works on a copy: the dataset passed in is left alone
add_nursing_column_imputed ==
    /\ ret' = nursing_frame_imputed(df)
    /\ UNCHANGED <<df, pc>>

add_rehab_column_imputed ==
    /\ ret' = rehab_frame_imputed(df)
    /\ UNCHANGED <<df, pc>>

TaskVals == {NaN, 0, 1, 999}

TASK_COLS == Q107_cols \o Q107_rehab_cols
TASK_POS == PosOf(TASK_COLS)

InitTasks ==
    /\ IsInput(df, TASK_COLS, TASK_POS, TaskVals)
    /\ ret = NoFrame
    /\ pc = 0

NextTasks ==
    \/ add_nursing_column
    \/ add_rehab_column
    \/ add_nursing_column_imputed
    \/ add_rehab_column_imputed

SpecTasks == InitTasks /\ [][NextTasks]_vars

\* ---- claims about Nursing Needs and Rehab Needs ----
Min2(k) == IF k < 2 THEN k ELSE 2

\* the label the claim gives a record over the task columns cols
TaskLabel(cols) ==
    LET V == {c \in Range(cols) : df[c] = 0 \/ df[c] = 1}
    IN  IF V = {} THEN None
        ELSE Min2(Cardinality({c \in V : df[c] = 1}))

\* C6: the nursing (rehab) label is None when no task column holds 0 or 1,
\* otherwise min(k, 2) for k columns equal to 1; a column holding 999 or a
\* missing value can be switched to the other of the two without changing
\* the result.
C6_TaskCount ==
    /\ "Nursing_Needs" \in DOMAIN df =>
          /\ df["Nursing_Needs"] = TaskLabel(Q107_cols)
          /\ \A c \in Range(Q107_cols) : \A x \in {NaN, 999} :
                df[c] \in {NaN, 999} =>
                   compute_nursing_category([df EXCEPT ![c] = x])
                      = df["Nursing_Needs"]
    /\ "Rehab_Needs" \in DOMAIN df =>
          /\ df["Rehab_Needs"] = TaskLabel(Q107_rehab_cols)
          /\ \A c \in Range(Q107_rehab_cols) : \A x \in {NaN, 999} :
                df[c] \in {NaN, 999} =>
                   compute_rehab_category([df EXCEPT ![c] = x])
                      = df["Rehab_Needs"]

\* both labels computed on a record with two nursing tasks mentioned next to
\* a 999, and no usable rehab answer
C6_Witness ==
    /\ "Nursing_Needs" \in DOMAIN df /\ "Rehab_Needs" \in DOMAIN df
    /\ df["Nursing_Needs"] = 2 /\ df["Rehab_Needs"] = None
    /\ \E c \in Range(Q107_cols) : df[c] = 999

(***************************************************************************)
(* G. Hospital Admissions / H. Polypharmacy                                *)
(***************************************************************************)
HOSPITAL_MAIN_COL == "Q96"
POLY_COL == "Q132"

\* the 666 / 777 test left out
compute_hospital_category_nocodes(row) ==
    LET val == row[HOSPITAL_MAIN_COL]
    IN  IF isna(val) THEN None
        ELSE IF val = Str THEN None
        ELSE IF val = 0 THEN 0
        ELSE IF val \in {1, 2} THEN 1
        ELSE IF val >= 3 THEN 2
        ELSE None

compute_hospital_category(row) ==
    LET val == row[HOSPITAL_MAIN_COL]
    IN  IF isna(val) THEN None
        ELSE IF val = Str THEN None
        ELSE IF val \in {666, 777} THEN None
        ELSE IF val = 0 THEN 0
        ELSE IF val \in {1, 2} THEN 1
        ELSE IF val >= 3 THEN 2
        ELSE None

\* first threshold written v <= 5
compute_polypharmacy_category_le5(row) ==
    LET val == row[POLY_COL]
    IN  IF isna(val) THEN None
        ELSE IF val = Str THEN None
        ELSE IF val \in {777, 999} THEN None
        ELSE IF val <= 5 THEN 0
        ELSE IF 5 <= val /\ val <= 8 THEN 1
        ELSE IF val >= 9 THEN 2
        ELSE None

compute_polypharmacy_category(row) ==
    LET val == row[POLY_COL]
    IN  IF isna(val) THEN None
        ELSE IF val = Str THEN None
        ELSE IF val \in {777, 999} THEN None
        ELSE IF val < 5 THEN 0
        ELSE IF 5 <= val /\ val <= 8 THEN 1
        ELSE IF val >= 9 THEN 2
        ELSE None

\* row[HOSPITAL_MAIN_COL] raises when the column is absent
add_hospital_column ==
    /\ IF HOSPITAL_MAIN_COL \in DOMAIN df
       THEN /\ df' = SetCol(df, "Hospital_Admissions_CF",
                            compute_hospital_category(df))
            /\ ret' = df'
       ELSE /\ df' = df
            /\ ret' = KeyError
    /\ UNCHANGED pc

add_polypharmacy_column ==
    /\ df' = SetCol(df, "Polypharmacy_CF", compute_polypharmacy_category(df))
    /\ ret' = df'
    /\ UNCHANGED pc

\* Q132 of the copy: to_numeric, then replace({777: 0, 999: 0})
impute_q132(d) ==
    [c \in DOMAIN d |->
        IF c = POLY_COL
        THEN (IF to_numeric(d[c]) \in {777, 999} THEN 0 ELSE to_numeric(d[c]))
        ELSE d[c]]

\* the dataset add_polypharmacy_column_imputed returns for d
polypharmacy_frame_imputed(d) ==
    LET df_imp == impute_q132(d)
    IN  SetCol(df_imp, "Polypharmacy_CF_Imputed",
               compute_polypharmacy_category(df_imp))

add_polypharmacy_column_imputed ==
    /\ ret' = polypharmacy_frame_imputed(df)
    /\ UNCHANGED <<df, pc>>

SentinelCodes == {666, 777, 888, 999}

\* largest ordinary count tried for Q96 and Q132
MaxCount == 10

CountVals == {NaN, Str} \cup (0..MaxCount) \cup SentinelCodes

COUNT_COLS == <<HOSPITAL_MAIN_COL, POLY_COL>>
COUNT_POS == PosOf(COUNT_COLS)

InitCounts ==
    /\ IsInput(df, COUNT_COLS, COUNT_POS, CountVals)
    /\ ret = NoFrame
    /\ pc = 0

NextCounts ==
    \/ add_hospital_column
    \/ add_polypharmacy_column
    \/ add_polypharmacy_column_imputed

SpecCounts == InitCounts /\ [][NextCounts]_vars

\* ---- claims about Hospital Admissions and Polypharmacy ----
IsCount(v) == v >= 0 /\ v \notin SentinelCodes

\* C7: the hospital label is 0 for Q96 = 0, 1 for 1 or 2, 2 for a real
\* count of 3 or more, and None for 666, 777, a missing and a non-numeric
\* value.
C7_Hospital ==
    "Hospital_Admissions_CF" \in DOMAIN df =>
        LET v == df["Q96"]
            lab == df["Hospital_Admissions_CF"]
        IN  /\ v = 0 => lab = 0
            /\ v \in {1, 2} => lab = 1
            /\ (IsCount(v) /\ v >= 3) => lab = 2
            /\ v \in {666, 777, NaN, Str} => lab = None

\* a refused answer (777) has been left unscored
C7_Witness ==
    /\ "Hospital_Admissions_CF" \in DOMAIN df
    /\ df["Q96"] = 777 /\ df["Hospital_Admissions_CF"] = None

\* C8: the polypharmacy label is 0 below 5, 1 from 5 to 8, 2 from 9 on, and
\* None for 777, 999 and a missing value; the imputed label of a record
\* whose Q132 is 777 or 999 is 0.
C8_Polypharmacy ==
    /\ "Polypharmacy_CF" \in DOMAIN df =>
          LET v == df["Q132"]
              lab == df["Polypharmacy_CF"]
          IN  /\ (v >= 0 /\ v \notin {777, 999} /\ v < 5) => lab = 0
              /\ (5 <= v /\ v <= 8) => lab = 1
              /\ (v >= 9 /\ v \notin {777, 999}) => lab = 2
              /\ v \in {777, 999, NaN} => lab = None
    /\ (ret # NoFrame /\ "Polypharmacy_CF_Imputed" \in DOMAIN ret) =>
          (df["Q132"] \in {777, 999} => ret["Polypharmacy_CF_Imputed"] = 0)

\* a record with Q132 = 999: unscored, and imputed to 0
C8_Witness ==
    /\ "Polypharmacy_CF" \in DOMAIN df /\ df["Q132"] = 999
    /\ df["Polypharmacy_CF"] = None
    /\ "Polypharmacy_CF_Imputed" \in DOMAIN ret
    /\ ret["Polypharmacy_CF_Imputed"] = 0

(***************************************************************************)
(* D. Activation in Own Care                                               *)
(***************************************************************************)
ACTIVATION_COLS == <<"Q64", "Q65", "Q66", "Q67", "Q68", "Q69", "Q70">>

\* sum(row[c] for c in S)
RECURSIVE SumCols(_, _)
SumCols(row, S) ==
    IF S = {} THEN 0
    ELSE LET c == CHOOSE x \in S : TRUE
         IN  row[c] + SumCols(row, S \ {c})

\* first test written mean_score >= 3.5
compute_activation_category_ge(row) ==
    LET valid == {c \in Range(ACTIVATION_COLS) : row[c] \in {0, 1, 2, 3, 4}}
        n == Cardinality(valid)
        total == SumCols(row, valid)
    IN  IF n = 0 THEN None
        ELSE IF 2 * total >= 7 * n THEN 0
        ELSE IF 5 * n <= 2 * total /\ 2 * total <= 7 * n THEN 1
        ELSE 2

\* mean_score = sum(valid) / len(valid) is compared with 3.5 = 7/2 and
\* 2.5 = 5/2; the quotient of two small integers is rounded correctly, so
\* each comparison is the comparison of 2 * sum with 7 * len or 5 * len.
compute_activation_category(row) ==
    LET valid == {c \in Range(ACTIVATION_COLS) : row[c] \in {0, 1, 2, 3, 4}}
        n == Cardinality(valid)
        total == SumCols(row, valid)
    IN  IF n = 0 THEN None
        ELSE IF 2 * total > 7 * n THEN 0
        ELSE IF 5 * n <= 2 * total /\ 2 * total <= 7 * n THEN 1
        ELSE 2

add_activation_column ==
    /\ df' = SetCol(df, "Activation_Care", compute_activation_category(df))
    /\ ret' = df'
    /\ UNCHANGED pc

ActivationVals == {NaN, 0, 1, 2, 3, 4, 777}

ACTIVATION_POS == PosOf(ACTIVATION_COLS)

InitActivation ==
    /\ IsInput(df, ACTIVATION_COLS, ACTIVATION_POS, ActivationVals)
    /\ ret = NoFrame
    /\ pc = 0

NextActivation == add_activation_column

SpecActivation == InitActivation /\ [][NextActivation]_vars

\* ---- claims about Activation in Own Care ----
\* number and sum of the Likert answers (0..4) among Q64..Q70
RECURSIVE LikertLen(_), LikertSum(_)
LikertLen(i) ==
    IF i = 0 THEN 0
    ELSE LikertLen(i - 1)
           + (IF df[ACTIVATION_COLS[i]] \in 0..4 THEN 1 ELSE 0)
LikertSum(i) ==
    IF i = 0 THEN 0
    ELSE LikertSum(i - 1)
           + (IF df[ACTIVATION_COLS[i]] \in 0..4 THEN df[ACTIVATION_COLS[i]] ELSE 0)

\* C9: with V the answers of Q64..Q70 that lie in 0..4, the label is None
\* for empty V, 0 for mean(V) > 3.5, 1 for 2.5 <= mean(V) <= 3.5 and 2 for
\* mean(V) < 2.5 (means compared as 10 * sum against 35 * len and 25 * len);
\* for non-empty V the label is one of 0, 1, 2.
C9_Activation ==
    "Activation_Care" \in DOMAIN df =>
        LET n == LikertLen(Len(ACTIVATION_COLS))
            t == LikertSum(Len(ACTIVATION_COLS))
            lab == df["Activation_Care"]
        IN  /\ n = 0 <=> lab = None
            /\ n > 0 => lab \in {0, 1, 2}
            /\ (n > 0 /\ 10 * t > 35 * n) <=> lab = 0
            /\ (n > 0 /\ 25 * n <= 10 * t /\ 10 * t <= 35 * n) <=> lab = 1
            /\ (n > 0 /\ 10 * t < 25 * n) <=> lab = 2

\* a record whose mean is exactly 3.5 has been labelled 1
C9_Witness ==
    /\ "Activation_Care" \in DOMAIN df /\ df["Activation_Care"] = 1
    /\ LikertLen(Len(ACTIVATION_COLS)) > 0
    /\ 2 * LikertSum(Len(ACTIVATION_COLS)) = 7 * LikertLen(Len(ACTIVATION_COLS))

(***************************************************************************)
(* E. Disruptive Behaviour                                                 *)
(***************************************************************************)
DISRUPTIVE_COLS ==
    <<"Q16", "Q17", "Q18", "Q19", "Q20", "Q21", "Q22", "Q23", "Q24", "Q25", "Q26">>

\* 777 / 999 appended as a Fail, as _map_cog_to_binary does
compute_disruptive_category_codesfail(row) ==
    LET passed == {c \in Range(DISRUPTIVE_COLS) : row[c] = 1}
        failed == {c \in Range(DISRUPTIVE_COLS) : row[c] \in {2, 777, 999}}
        pass_count == Cardinality(passed)
    IN  IF Cardinality(passed) + Cardinality(failed) = 0 THEN None
        ELSE IF pass_count >= 9 THEN 0
        ELSE IF pass_count >= 7 THEN 1
        ELSE 2

\* pass_values holds a 1 per column equal to 1 and a 0 per column equal to 2
compute_disruptive_category(row) ==
    LET passed == {c \in Range(DISRUPTIVE_COLS) : row[c] = 1}
        failed == {c \in Range(DISRUPTIVE_COLS) : row[c] = 2}
        pass_count == Cardinality(passed)
    IN  IF Cardinality(passed) + Cardinality(failed) = 0 THEN None
        ELSE IF pass_count >= 9 THEN 0
        ELSE IF pass_count >= 7 THEN 1
        ELSE 2

add_disruptive_column ==
    /\ df' = SetCol(df, "Disruptive_Behaviour", compute_disruptive_category(df))
    /\ ret' = df'
    /\ UNCHANGED pc

DisruptiveVals == {NaN, 1, 2, 777, 999}

DISRUPTIVE_POS == PosOf(DISRUPTIVE_COLS)

InitDisruptive ==
    /\ IsInput(df, DISRUPTIVE_COLS, DISRUPTIVE_POS, DisruptiveVals)
    /\ ret = NoFrame
    /\ pc = 0

NextDisruptive == add_disruptive_column

SpecDisruptive == InitDisruptive /\ [][NextDisruptive]_vars

\* ---- claims about Disruptive Behaviour ----
\* sum of the mapped items: 1 for a Pass (1), 0 for a Fail (2)
RECURSIVE PassSum(_)
PassSum(i) ==
    IF i = 0 THEN 0
    ELSE PassSum(i - 1) + (IF df[DISRUPTIVE_COLS[i]] = 1 THEN 1 ELSE 0)

FAMILY_COLS == <<"Q193", "Q194", "Q195">>
FRIEND_COLS == <<"Q196", "Q197", "Q198">>
ALL_LUBBEN_COLS == FAMILY_COLS \o FRIEND_COLS

\* LUBBEN_MAP.get(v, None)
LUBBEN_MAP(v) ==
    CASE v = 1 -> 0
      [] v = 2 -> 1
      [] v = 3 -> 2
      [] v = 4 -> 3
      [] v = 5 -> 5
      [] v = 6 -> 9
      [] OTHER -> None

\* support counted as present on the pair of items alone
compute_social_support_category_pair(row) ==
    LET q193 == LUBBEN_MAP(Get(row, "Q193"))
        q194 == LUBBEN_MAP(Get(row, "Q194"))
        q195 == LUBBEN_MAP(Get(row, "Q195"))
        q196 == LUBBEN_MAP(Get(row, "Q196"))
        q197 == LUBBEN_MAP(Get(row, "Q197"))
        q198 == LUBBEN_MAP(Get(row, "Q198"))
    IN  IF \E v \in {q193, q194, q195, q196, q197, q198} : v = None THEN None
        ELSE IF \/ (q193 + q194) > 0
                \/ (q196 + q197) > 0 THEN 0
        ELSE IF (q193 + q194 + q195 + q196 + q197 + q198) = 0 THEN 2
        ELSE 1

compute_social_support_category(row) ==
    LET q193 == LUBBEN_MAP(Get(row, "Q193"))
        q194 == LUBBEN_MAP(Get(row, "Q194"))
        q195 == LUBBEN_MAP(Get(row, "Q195"))
        q196 == LUBBEN_MAP(Get(row, "Q196"))
        q197 == LUBBEN_MAP(Get(row, "Q197"))
        q198 == LUBBEN_MAP(Get(row, "Q198"))
    IN  IF \E v \in {q193, q194, q195, q196, q197, q198} : v = None THEN None
        ELSE IF \/ ((q193 + q194) > 0 /\ q195 > 0)
                \/ ((q196 + q197) > 0 /\ q198 > 0) THEN 0
        ELSE IF (q193 + q194 + q195 + q196 + q197 + q198) = 0 THEN 2
        ELSE 1

add_social_support_column ==
    /\ df' = SetCol(df, "Social_Support_CF", compute_social_support_category(df))
    /\ ret' = df'
    /\ UNCHANGED pc

SocialVals == {NaN, 1, 2, 3, 6, 777}

\* every record over the six Lubben items with cells in SocialVals
InitSocial ==
    /\ df \in [Range(ALL_LUBBEN_COLS) -> SocialVals]
    /\ ret = NoFrame
    /\ pc = 0

NextSocial == add_social_support_column

SpecSocial == InitSocial /\ [][NextSocial]_vars

\* ---- claims about Social Support ----
\* the number of people a raw Lubben code 1..6 stands for
LubbenCount(v) == IF v <= 4 THEN v - 1 ELSE IF v = 5 THEN 5 ELSE 9

\* C11: once add_social_support_column has run, the label is None if any of
\* Q193..Q198 is not a raw code 1..6; otherwise, with the codes mapped to
\* 0,1,2,3,5,9, it is 0 if (Q193+Q194 > 0 and Q195 > 0) or (Q196+Q197 > 0
\* and Q198 > 0), else 2 if all six raw codes are 1, else 1.
C11_SocialSupport ==
    "Social_Support_CF" \in DOMAIN df =>
        LET lab == df["Social_Support_CF"]
            coded == \A c \in Range(ALL_LUBBEN_COLS) : df[c] \in 1..6
            n(c) == LubbenCount(df[c])
            family == (n("Q193") + n("Q194") > 0) /\ n("Q195") > 0
            friends == (n("Q196") + n("Q197") > 0) /\ n("Q198") > 0
            all_1 == \A c \in Range(ALL_LUBBEN_COLS) : df[c] = 1
        IN  /\ ~coded => lab = None
            /\ (coded /\ (family \/ friends)) => lab = 0
            /\ (coded /\ ~(family \/ friends) /\ all_1) => lab = 2
            /\ (coded /\ ~(family \/ friends) /\ ~all_1) => lab = 1

\* a record with somebody in a pair of items but nobody in the third item
\* of either group: labelled 1
C11_Witness ==
    /\ "Social_Support_CF" \in DOMAIN df /\ df["Social_Support_CF"] = 1
    /\ df["Q193"] > 1 /\ df["Q195"] = 1 /\ df["Q198"] = 1

(***************************************************************************)
(* J. Financial Challenges                                                 *)
(***************************************************************************)
FINANCIAL_COLS == <<"Q108", "Q109", "Q110", "Q111", "Q74">>

\* a missing Q74 counted like a disagreement
compute_financial_challenges_category_q74missing(row) ==
    LET q108_raw == _to_int(Get(row, "Q108"))
        q109 == _to_int(Get(row, "Q109"))
        q110_raw == _to_int(Get(row, "Q110"))
        q111 == _to_int(Get(row, "Q111"))
        q74_raw == _to_int(Get(row, "Q74"))
        q108 == IF q108_raw \in {4, 777} THEN None ELSE q108_raw
        q110 == IF q110_raw \in {4, 777} THEN None ELSE q110_raw
        q74 == IF q74_raw \in {777} THEN None ELSE q74_raw
        cond_poly_gp == (q108 = 1 /\ q109 = 1)
        cond_hosp == (q110 = 1 /\ q111 = 1)
        cond_q74 == (q74 <= 2)
    IN  IF cond_poly_gp \/ cond_hosp \/ cond_q74 THEN 1 ELSE 0

compute_financial_challenges_category(row) ==
    LET q108_raw == _to_int(Get(row, "Q108"))
        q109 == _to_int(Get(row, "Q109"))
        q110_raw == _to_int(Get(row, "Q110"))
        q111 == _to_int(Get(row, "Q111"))
        q74_raw == _to_int(Get(row, "Q74"))
        q108 == IF q108_raw \in {4, 777} THEN None ELSE q108_raw
        q110 == IF q110_raw \in {4, 777} THEN None ELSE q110_raw
        q74 == IF q74_raw \in {777} THEN None ELSE q74_raw
        cond_poly_gp == (q108 = 1 /\ q109 = 1)
        cond_hosp == (q110 = 1 /\ q111 = 1)
        cond_q74 == (q74 # None /\ q74 <= 2)
    IN  IF cond_poly_gp \/ cond_hosp \/ cond_q74 THEN 1 ELSE 0

add_financial_challenges_column ==
    /\ df' = SetCol(df, "Financial_Challenges_CF",
                    compute_financial_challenges_category(df))
    /\ ret' = df'
    /\ UNCHANGED pc

\* a replacement value that is itself a key of the mapping: {3: 2, 777: 3}
impute_q110_to_no_chained(d, col) ==
    IF col \in DOMAIN d
    THEN [d EXCEPT ![col] = IF @ = 3 THEN 2 ELSE IF @ = 777 THEN 3 ELSE @]
    ELSE d

\* df_imp = df.copy(); df_imp[col].replace({3: 2, 777: 2}) when col exists
impute_q110_to_no(d, col) ==
    IF col \in DOMAIN d
    THEN [d EXCEPT ![col] = IF @ \in {3, 777} THEN 2 ELSE @]
    ELSE d

\* the dataset add_financial_challenges_column_imputed returns for d
financial_frame_imputed(d) ==
    LET df_imp == impute_q110_to_no(d, "Q110")
    IN  SetCol(df_imp, "Financial_Challenges_CF_Imputed",
               compute_financial_challenges_category(df_imp))

impute_q110_to_no_call ==
    /\ ret' = impute_q110_to_no(df, "Q110")
    /\ UNCHANGED <<df, pc>>

add_financial_challenges_column_imputed ==
    /\ ret' = financial_frame_imputed(df)
    /\ UNCHANGED <<df, pc>>

FinancialVals == {NaN, Str, 1, 2, 3, 4, 777}

\* every record over the five questions with cells in FinancialVals
InitFinancial ==
    /\ df \in [Range(FINANCIAL_COLS) -> FinancialVals]
    /\ ret = NoFrame
    /\ pc = 0

NextFinancial ==
    \/ add_financial_challenges_column
    \/ impute_q110_to_no_call
    \/ add_financial_challenges_column_imputed

SpecFinancial == InitFinancial /\ [][NextFinancial]_vars

\* ---- claims about Financial Challenges ----
\* C12: once add_financial_challenges_column has run, the label is 1 iff
\* (Q108 = 1 and Q109 = 1) or (Q110 = 1 and Q111 = 1) or (Q74 is usable and
\* Q74 <= 2), and 0 otherwise; a refused or not-applicable answer (Q108 or
\* Q110 in 3, 4, 777; Q74 = 777) counts like a missing one.
C12_Financial ==
    "Financial_Challenges_CF" \in DOMAIN df =>
        LET lab == df["Financial_Challenges_CF"]
            q74_usable == df["Q74"] \notin {NaN, Str, 777}
            yes == \/ (df["Q108"] = 1 /\ df["Q109"] = 1)
                   \/ (df["Q110"] = 1 /\ df["Q111"] = 1)
                   \/ (q74_usable /\ df["Q74"] <= 2)
        IN  /\ lab = (IF yes THEN 1 ELSE 0)
            /\ \A c \in {"Q108", "Q110"} :
                  df[c] \in {3, 4, 777} =>
                     compute_financial_challenges_category(
                         [df EXCEPT ![c] = NaN]) = lab
            /\ df["Q74"] = 777 =>
                  compute_financial_challenges_category(
                      [df EXCEPT !["Q74"] = NaN]) = lab

\* refused Q108 and Q74 next to "could not afford": labelled 0
C12_Witness ==
    /\ "Financial_Challenges_CF" \in DOMAIN df
    /\ df["Financial_Challenges_CF"] = 0
    /\ df["Q108"] = 777 /\ df["Q109"] = 1 /\ df["Q74"] = 777

(***************************************************************************)
(* The imputation passes of nursing, rehab, polypharmacy and financial     *)
(* challenges, next to the functions that add the non-imputed labels       *)
(***************************************************************************)
IMPUTE_COLS == TASK_COLS \o <<POLY_COL>> \o FINANCIAL_COLS
IMPUTE_POS == PosOf(IMPUTE_COLS)

ImputeVals == {NaN, 0, 1, 2, 3, 777, 999}

InitImpute ==
    /\ IsSplit(df, IMPUTE_COLS, IMPUTE_POS, ImputeVals)
    /\ ret = NoFrame
    /\ pc = 0

NextImpute ==
    \/ add_nursing_column
    \/ add_rehab_column
    \/ add_polypharmacy_column
    \/ add_financial_challenges_column
    \/ add_nursing_column_imputed
    \/ add_rehab_column_imputed
    \/ add_polypharmacy_column_imputed
    \/ impute_q110_to_no_call
    \/ add_financial_challenges_column_imputed

SpecImpute == InitImpute /\ [][NextImpute]_vars

\* ---- claims about imputation ----
ImputedCols ==
    {"Nursing_Needs_Imputed", "Rehab_Needs_Imputed",
     "Polypharmacy_CF_Imputed", "Financial_Challenges_CF_Imputed"}
LabelCols ==
    {"Nursing_Needs", "Rehab_Needs", "Polypharmacy_CF", "Financial_Challenges_CF"}

\* C16: no step gives the dataset that was passed in an "_Imputed" column or
\* changes a column it has; a step that returns a dataset with an imputed
\* label leaves the dataset passed in as it was, and the returned dataset
\* has the columns of the one passed in plus the one "_Imputed" column, with
\* every non-imputed label unchanged.
C16_ImputationFrame ==
    [][/\ ImputedCols \cap DOMAIN df' = {}
       /\ \A c \in DOMAIN df : c \in DOMAIN df' /\ df'[c] = df[c]
       /\ (ret' # NoFrame /\ ImputedCols \cap DOMAIN ret' # {}) =>
             /\ df' = df
             /\ DOMAIN df \subseteq DOMAIN ret'
             /\ (DOMAIN ret') \ (DOMAIN df) \subseteq ImputedCols
             /\ Cardinality((DOMAIN ret') \ (DOMAIN df)) = 1
             /\ \A c \in LabelCols \cap DOMAIN df : ret'[c] = df[c]]_vars

\* the returned dataset holds the imputed nursing label 0 next to the
\* non-imputed label None, and the dataset passed in still holds the 999
C16_Witness ==
    /\ ret # NoFrame /\ "Nursing_Needs_Imputed" \in DOMAIN ret
    /\ "Nursing_Needs" \in DOMAIN ret
    /\ ret["Nursing_Needs"] = None /\ ret["Nursing_Needs_Imputed"] = 0
    /\ df["Q107_1"] = 999 /\ ret["Q107_1"] = 0
    /\ "Nursing_Needs_Imputed" \notin DOMAIN df

\* C17: a dataset returned by an imputation pass is a fixed point of that
\* pass: applying the pass to it gives the same remapped columns and the
\* same imputed label.
C17_ImputationIdempotent ==
    ret # NoFrame =>
        /\ "Nursing_Needs_Imputed" \in DOMAIN ret
              => nursing_frame_imputed(ret) = ret
        /\ "Rehab_Needs_Imputed" \in DOMAIN ret
              => rehab_frame_imputed(ret) = ret
        /\ "Polypharmacy_CF_Imputed" \in DOMAIN ret
              => polypharmacy_frame_imputed(ret) = ret
        /\ "Financial_Challenges_CF_Imputed" \in DOMAIN ret
              => financial_frame_imputed(ret) = ret
        /\ ret = impute_q110_to_no(df, "Q110")
              => impute_q110_to_no(ret, "Q110") = ret

\* a refused Q110 has been imputed to 2 in the returned dataset
C17_Witness ==
    /\ ret # NoFrame /\ "Financial_Challenges_CF_Imputed" \in DOMAIN ret
    /\ df["Q110"] = 777 /\ ret["Q110"] = 2

(***************************************************************************)
(* L. Non-medical Resource Needs                                           *)
(***************************************************************************)
Q185_EVENT_COLS ==
    <<"Q185_1", "Q185_2", "Q185_3", "Q185_4", "Q185_5", "Q185_6",
      "Q185_7", "Q185_8", "Q185_9", "Q185_10", "Q185_11", "Q185_12">>
Q185_NA_COL == "Q185_13"

\* category 0 only when each of the twelve items is answered 0
compute_non_medical_resource_needs_category_all12(row) ==
    LET val(c) == _to_int(Get(row, c))
        events == Range(Q185_EVENT_COLS)
        na_flag == val(Q185_NA_COL)
        usable == {c \in events : val(c) # None /\ val(c) # 777}
    IN  IF (\A c \in events : val(c) = None) /\ na_flag = None THEN None
        ELSE IF na_flag = 1 /\ (\A c \in events : val(c) = 0)
             THEN 0
        ELSE IF val("Q185_4") = 1 \/ val("Q185_7") = 1 \/ val("Q185_8") = 1
             THEN 2
        ELSE IF \E c \in usable : val(c) = 1 THEN 1
        ELSE IF usable # {} THEN 1
        ELSE None

compute_non_medical_resource_needs_category(row) ==
    LET val(c) == _to_int(Get(row, c))
        events == Range(Q185_EVENT_COLS)
        na_flag == val(Q185_NA_COL)
        usable == {c \in events : val(c) # None /\ val(c) # 777}
    IN  IF (\A c \in events : val(c) = None) /\ na_flag = None THEN None
        ELSE IF na_flag = 1 /\ usable # {} /\ (\A c \in usable : val(c) = 0)
             THEN 0
        ELSE IF val("Q185_4") = 1 \/ val("Q185_7") = 1 \/ val("Q185_8") = 1
             THEN 2
        ELSE IF \E c \in usable : val(c) = 1 THEN 1
        ELSE IF usable # {} THEN 1
        ELSE None

\* computes the column only when the dataset does not have it yet
add_non_medical_resource_needs_column ==
    /\ df' = IF "Non_Medical_Resource_Needs_CF" \in DOMAIN df THEN df
             ELSE SetCol(df, "Non_Medical_Resource_Needs_CF",
                         compute_non_medical_resource_needs_category(df))
    /\ ret' = df'
    /\ UNCHANGED pc

NonMedicalVals == {NaN, 0, 1, 777, 999}

NON_MEDICAL_COLS == Q185_EVENT_COLS \o <<Q185_NA_COL>>
NON_MEDICAL_POS == PosOf(NON_MEDICAL_COLS)

InitNonMedical ==
    /\ IsInput(df, NON_MEDICAL_COLS, NON_MEDICAL_POS, NonMedicalVals)
    /\ ret = NoFrame
    /\ pc = 0

NextNonMedical == add_non_medical_resource_needs_column

SpecNonMedical == InitNonMedical /\ [][NextNonMedical]_vars

\* ---- claims about Non-medical Resource Needs ----
\* the items of Q185_1..Q185_12 with a usable answer (not missing, not 777)
UsableItems == {c \in Range(Q185_EVENT_COLS) : df[c] \notin {NaN, Str, 777}}
HighSeverity == df["Q185_4"] = 1 \/ df["Q185_7"] = 1 \/ df["Q185_8"] = 1

\* C15 as stated: once add_non_medical_resource_needs_column has run, the
\* label is 0 if Q185_1..Q185_12 are all 0 and Q185_13 = 1; 2 if any of
\* Q185_4, Q185_7, Q185_8 is 1; otherwise 1 if some item has a usable
\* answer; and None only if no item has a usable answer.
C15_NonMedical_AsStated ==
    "Non_Medical_Resource_Needs_CF" \in DOMAIN df =>
        LET lab == df["Non_Medical_Resource_Needs_CF"]
            all_0 == \A c \in Range(Q185_EVENT_COLS) : df[c] = 0
            stable == all_0 /\ df[Q185_NA_COL] = 1
        IN  /\ stable => lab = 0
            /\ HighSeverity => lab = 2
            /\ (~stable /\ ~HighSeverity /\ UsableItems # {}) => lab = 1
            /\ lab = None => UsableItems = {}

\* C15 amended: the label is 0 iff Q185_13 = 1, some item of Q185_1..Q185_12
\* has a usable answer and every usable answer is 0; 2 iff any of Q185_4,
\* Q185_7, Q185_8 is 1; None iff no item has a usable answer; and 1 in
\* every other case.
C15_NonMedical ==
    "Non_Medical_Resource_Needs_CF" \in DOMAIN df =>
        LET lab == df["Non_Medical_Resource_Needs_CF"]
            stable == /\ df[Q185_NA_COL] = 1
                      /\ UsableItems # {}
                      /\ \A c \in UsableItems : df[c] = 0
        IN  /\ lab = 0 <=> stable
            /\ lab = 2 <=> HighSeverity
            /\ lab = None <=> UsableItems = {}
            /\ lab = 1 <=> (UsableItems # {} /\ ~stable /\ ~HighSeverity)

\* "not applicable" ticked, one item refused and the others 0: labelled 0
C15_Witness ==
    /\ "Non_Medical_Resource_Needs_CF" \in DOMAIN df
    /\ df["Non_Medical_Resource_Needs_CF"] = 0
    /\ \E c \in Range(Q185_EVENT_COLS) : df[c] = 777

(***************************************************************************)
(* Organization of Care                                                    *)
(***************************************************************************)
GP_COL == "Q80"
PC_COL == "Q85"
SOC_COL == "Q91"

_clean(v) ==
    IF isna(v) \/ v \in {777, 888, 999} THEN 0
    ELSE IF v = Str THEN 0
    ELSE v

\* the category taken from the number of sites visited
compute_organization_of_care_threshold(row) ==
    LET gp == IF _clean(Get(row, GP_COL)) >= 1 THEN 1 ELSE 0
        pc_ == IF _clean(Get(row, PC_COL)) >= 1 THEN 1 ELSE 0
        soc == IF _clean(Get(row, SOC_COL)) >= 1 THEN 1 ELSE 0
    IN  IF gp + pc_ + soc <= 1 THEN 0
        ELSE IF gp + pc_ + soc = 2 THEN 1
        ELSE 2

compute_organization_of_care(row) ==
    LET gp == IF _clean(Get(row, GP_COL)) >= 1 THEN 1 ELSE 0
        pc_ == IF _clean(Get(row, PC_COL)) >= 1 THEN 1 ELSE 0
        soc == IF _clean(Get(row, SOC_COL)) >= 1 THEN 1 ELSE 0
    IN  IF <<gp, pc_, soc>> \in {<<0, 0, 0>>, <<1, 0, 0>>, <<0, 0, 1>>} THEN 0
        ELSE IF <<gp, pc_, soc>> = <<0, 1, 0>> THEN 1
        ELSE 2

\* df = df.copy(): the column is added to a copy, which is returned
add_organization_of_care_column ==
    /\ ret' = SetCol(df, "Organization_of_Care_CF",
                     compute_organization_of_care(df))
    /\ UNCHANGED <<df, pc>>

OrganizationVals == {NaN, Str, 0, 1, 2, 3, 666, 777, 888, 999}

\* every record over the three visit columns with cells in OrganizationVals
InitOrganization ==
    /\ df \in [{GP_COL, PC_COL, SOC_COL} -> OrganizationVals]
    /\ ret = NoFrame
    /\ pc = 0

NextOrganization == add_organization_of_care_column

SpecOrganization == InitOrganization /\ [][NextOrganization]_vars

\* ---- claims about Organization of Care ----
\* 1 when the cell holds a visit count >= 1 (a number that is none of the
\* codes 777, 888, 999), else 0
Present(v) == IF v \notin {NaN, Str, 777, 888, 999} /\ v >= 1 THEN 1 ELSE 0

\* C13: the label in the dataset add_organization_of_care_column returns is
\* given by the presence tuple (gp, pc, soc) of Q80, Q85, Q91: (0,0,0),
\* (1,0,0), (0,0,1) -> 0; (0,1,0) -> 1; each of the four other tuples -> 2.
C13_Organization ==
    (ret # NoFrame /\ "Organization_of_Care_CF" \in DOMAIN ret) =>
        LET t == <<Present(df[GP_COL]), Present(df[PC_COL]), Present(df[SOC_COL])>>
            lab == ret["Organization_of_Care_CF"]
        IN  /\ t = <<0, 0, 0>> => lab = 0
            /\ t = <<1, 0, 0>> => lab = 0
            /\ t = <<0, 0, 1>> => lab = 0
            /\ t = <<0, 1, 0>> => lab = 1
            /\ t = <<1, 1, 0>> => lab = 2
            /\ t = <<1, 0, 1>> => lab = 2
            /\ t = <<0, 1, 1>> => lab = 2
            /\ t = <<1, 1, 1>> => lab = 2

\* polyclinic visits only, GP refused, no specialist clinic: labelled 1
C13_Witness ==
    /\ ret # NoFrame /\ "Organization_of_Care_CF" \in DOMAIN ret
    /\ ret["Organization_of_Care_CF"] = 1
    /\ df[GP_COL] = 777 /\ df[PC_COL] = 2 /\ df[SOC_COL] = 0

(***************************************************************************)
(* Global Impressions: the five flags                                      *)
(***************************************************************************)
GI_IV_S0_COL == "S0"
GI_IV_Q129_COL == "Q129"
GI_IV_Q142_COL == "Q142"
GI_IV_COG_COLS ==
    <<"Q16", "Q17", "Q18", "Q19", "Q20", "Q21", "Q22", "Q23", "Q24", "Q25", "Q26">>
GI_II_NLT_COLS ==
    <<"Q130_G", "Q130_J", "Q130_K", "Q130_L", "Q130_O", "Q130_P",
      "Q130_Q", "Q130_S", "Q130_T", "Q130_U", "Q130_V", "Q130_W">>
GI_III_LT_COLS ==
    <<"Q130_A", "Q130_B", "Q130_C", "Q130_D", "Q130_E",
      "Q130_F", "Q130_H", "Q130_I", "Q130_M">>

_map_cog_to_binary(x) ==
    LET v == _to_int(x)
    IN  IF v = None THEN None
        ELSE IF v = 1 THEN 1
        ELSE IF v \in {2, 777, 999} THEN 0
        ELSE None

gi_iv_flag(row) ==
    LET s0 == _to_int(Get(row, GI_IV_S0_COL))
        q129 == _to_int(Get(row, GI_IV_Q129_COL))
        cond_1 == (s0 = 2) /\ (q129 = 1)
        q142 == _to_int(Get(row, GI_IV_Q142_COL))
        cond_2 == (q142 # None /\ q142 <= 2)
        cog == {c \in Range(GI_IV_COG_COLS) : c \in DOMAIN row}
        cog_sum == Cardinality({c \in cog : _map_cog_to_binary(row[c]) = 1})
        cond_3 == IF cog = {} \/ (\A c \in cog : _map_cog_to_binary(row[c]) = None)
                  THEN FALSE
                  ELSE cog_sum < 5
        score == (IF cond_1 THEN 1 ELSE 0) + (IF cond_2 THEN 1 ELSE 0)
                   + (IF cond_3 THEN 1 ELSE 0)
    IN  score >= 2

gi_i_flag(row) ==
    LET healthy == /\ Get(row, "Q124") = 2
                   /\ Get(row, "Q126") = 2
                   /\ Get(row, "Q128") = 2
                   /\ Get(row, "Q129") = 2
                   /\ Get(row, "Q130") = 2
    IN  healthy /\ ~gi_iv_flag(row)

\* row.get(col, 0): 0 when the column is absent
Get0(row, c) == IF c \in DOMAIN row THEN row[c] ELSE 0

gi_ii_flag(row) ==
    LET has_nlt == \E c \in Range(GI_II_NLT_COLS) : Get0(row, c) = 1
        has_elevated_bp == Get(row, "Q124") \in {1, 3}
        not_limited == Get(row, "Q142") = 3
    IN  (has_nlt \/ has_elevated_bp) \/ not_limited

gi_iii_flag(row) ==
    LET has_nlt == \E c \in Range(GI_II_NLT_COLS) : Get0(row, c) = 1
        has_elevated_bp == Get(row, "Q124") \in {1, 3}
        q142 == Get(row, "Q142")
        limited == q142 = 1
        has_lt == \E c \in Range(GI_III_LT_COLS) : Get0(row, c) = 1
        not_limited == q142 = 3
    IN  ((has_nlt \/ has_elevated_bp) /\ limited) \/ (has_lt /\ not_limited)

_safe_hosp(x) ==
    LET v == _to_int(x)
    IN  IF v = None THEN 0
        ELSE IF v \in {666, 777, 888, 999} THEN 0
        ELSE v

gi_v_flag(row) ==
    LET q96 == _safe_hosp(Get(row, "Q96"))
        q103 == _safe_hosp(Get(row, "Q103"))
        has_2plus_hosp == (q96 >= 2) \/ (q103 >= 2)
        has_life_threatening ==
            \E c \in Range(GI_III_LT_COLS) : _to_int(Get(row, c)) = 1
    IN  has_2plus_hosp /\ has_life_threatening

(***************************************************************************)
(* Global Impressions: one label per record                                *)
(***************************************************************************)
\* global_impressions.assign_gi_label
assign_gi_label(row) ==
    IF gi_v_flag(row) THEN "GI V"
    ELSE IF gi_iv_flag(row) THEN "GI IV"
    ELSE IF gi_iii_flag(row) THEN "GI III"
    ELSE IF gi_ii_flag(row) THEN "GI II"
    ELSE IF gi_i_flag(row) THEN "GI I"
    ELSE "Unclassified"

\* gi_vs_cfs.assign_gi_label
gi_vs_cfs_assign_gi_label(row) ==
    IF gi_iv_flag(row) THEN "GI IV"
    ELSE IF gi_v_flag(row) THEN "GI V"
    ELSE IF gi_iii_flag(row) THEN "GI III"
    ELSE IF gi_ii_flag(row) THEN "GI II"
    ELSE IF gi_i_flag(row) THEN "GI I"
    ELSE "Unclassified"

\* the masked assignments without their exclusions: the last mask that
\* holds, the mildest one, overwrites the label
compute_unique_gi_labels_unmasked(d) ==
    LET healthy == /\ d["Q124"] = 2
                   /\ d["Q126"] = 2
                   /\ d["Q128"] = 2
                   /\ d["Q129"] = 2
                   /\ d["Q130"] = 2
    IN  IF healthy /\ ~gi_iv_flag(d) THEN "GI I"
        ELSE IF gi_ii_flag(d) THEN "GI II"
        ELSE IF gi_iii_flag(d) THEN "GI III"
        ELSE IF gi_iv_flag(d) THEN "GI IV"
        ELSE IF gi_v_flag(d) THEN "GI V"
        ELSE "Unclassified"

\* just_global_impressions.compute_unique_gi_labels on the one record of d:
\* the label starts as "Unclassified" and the masked assignments follow
compute_unique_gi_labels(d) ==
    LET m5 == gi_v_flag(d)
        m4 == gi_iv_flag(d)
        m3 == gi_iii_flag(d)
        m2 == gi_ii_flag(d)
        healthy == /\ d["Q124"] = 2
                   /\ d["Q126"] = 2
                   /\ d["Q128"] = 2
                   /\ d["Q129"] = 2
                   /\ d["Q130"] = 2
        m1 == healthy /\ ~m4
        out0 == "Unclassified"
        out1 == IF m5 THEN "GI V" ELSE out0
        out2 == IF m4 /\ ~m5 THEN "GI IV" ELSE out1
        out3 == IF m3 /\ ~(m4 \/ m5) THEN "GI III" ELSE out2
        out4 == IF m2 /\ ~(m3 \/ m4 \/ m5) THEN "GI II" ELSE out3
        out5 == IF m1 /\ ~(m2 \/ m3 \/ m4 \/ m5) THEN "GI I" ELSE out4
    IN  out5

\* every label is one of the categories of GI_ASSIGN_ORDER, so the
\* pd.isna(gi_label) branch is not taken
_map_gi_to_cf_k(gi_label) ==
    IF gi_label \in {"GI III", "GI IV"} THEN 1
    ELSE IF gi_label = "GI V" THEN 2
    ELSE 0

\* CF K derived from the label of gi_vs_cfs.assign_gi_label
specialist_frame_ivfirst(d) ==
    LET dff == IF "GI_Assigned" \in DOMAIN d THEN d
               ELSE SetCol(d, "GI_Assigned", gi_vs_cfs_assign_gi_label(d))
    IN  SetCol(dff, "Specialist_Medical_Service_Needs_CF",
               _map_gi_to_cf_k(dff["GI_Assigned"]))

\* CF K on a copy of d; GI_Assigned is computed only when d lacks it
specialist_frame(d) ==
    LET dff == IF "GI_Assigned" \in DOMAIN d THEN d
               ELSE SetCol(d, "GI_Assigned", assign_gi_label(d))
    IN  SetCol(dff, "Specialist_Medical_Service_Needs_CF",
               _map_gi_to_cf_k(dff["GI_Assigned"]))

add_specialist_medical_service_needs_column ==
    /\ ret' = specialist_frame(df)
    /\ UNCHANGED <<df, pc>>

build_gi_assigned_df ==
    /\ ret' = SetCol(df, "GI_Assigned", gi_vs_cfs_assign_gi_label(df))
    /\ UNCHANGED <<df, pc>>

add_unique_gi_column ==
    /\ ret' = IF "GI_Assigned" \in DOMAIN df THEN df
              ELSE SetCol(df, "GI_Assigned", compute_unique_gi_labels(df))
    /\ UNCHANGED <<df, pc>>

GI_COLS ==
    <<"Q96", "Q103", "Q142", "S0">> \o GI_IV_COG_COLS \o <<"Q129">>
      \o GI_III_LT_COLS \o GI_II_NLT_COLS \o <<"Q124", "Q126", "Q128", "Q130">>

GIVals == {NaN, 1, 2, 3}

GI_POS == PosOf(GI_COLS)

InitGI ==
    /\ IsInput(df, GI_COLS, GI_POS, GIVals)
    /\ ret = NoFrame
    /\ pc = 0

NextGI ==
    \/ add_specialist_medical_service_needs_column
    \/ build_gi_assigned_df
    \/ add_unique_gi_column

SpecGI == InitGI /\ [][NextGI]_vars

\* ---- claims about the GI label ----
\* the most severe flag that holds for the record, in the order
\* V > IV > III > II > I, and "Unclassified" when none holds
MostSevere(row) ==
    CASE gi_v_flag(row) -> "GI V"
      [] ~gi_v_flag(row) /\ gi_iv_flag(row) -> "GI IV"
      [] ~gi_v_flag(row) /\ ~gi_iv_flag(row) /\ gi_iii_flag(row) -> "GI III"
      [] ~gi_v_flag(row) /\ ~gi_iv_flag(row) /\ ~gi_iii_flag(row)
           /\ gi_ii_flag(row) -> "GI II"
      [] ~gi_v_flag(row) /\ ~gi_iv_flag(row) /\ ~gi_iii_flag(row)
           /\ ~gi_ii_flag(row) /\ gi_i_flag(row) -> "GI I"
      [] OTHER -> "Unclassified"

\* C3: whichever function wrote GI_Assigned into the returned dataset, the
\* label is the most severe GI flag of the record (V > IV > III > II > I),
\* "Unclassified" exactly when no flag holds, and "GI V" for a record that
\* satisfies GI-III and GI-V.
C3_SeverityPrecedence ==
    (ret # NoFrame /\ "GI_Assigned" \in DOMAIN ret) =>
        /\ ret["GI_Assigned"] = MostSevere(df)
        /\ (gi_iii_flag(df) /\ gi_v_flag(df)) => ret["GI_Assigned"] = "GI V"
        /\ ret["GI_Assigned"] = "Unclassified"
              <=> ~(gi_i_flag(df) \/ gi_ii_flag(df) \/ gi_iii_flag(df)
                      \/ gi_iv_flag(df) \/ gi_v_flag(df))

(***************************************************************************)
(* app.py: the dataset is loaded once and the twelve CF columns are added  *)
(* in the order of lines 26-37; every line rebinds the global df to the    *)
(* dataset the function returns.                                           *)
(***************************************************************************)
startup(k, d) ==
    /\ pc = k
    /\ df' = d
    /\ ret' = d
    /\ pc' = k + 1

startup_add_FA_column ==
    startup(0, SetCol(df, "Functional_Assessment", compute_FA_category(df)))
startup_add_nursing_column ==
    startup(1, SetCol(df, "Nursing_Needs", compute_nursing_category(df)))
startup_add_rehab_column ==
    startup(2, SetCol(df, "Rehab_Needs", compute_rehab_category(df)))
startup_add_activation_column ==
    startup(3, SetCol(df, "Activation_Care", compute_activation_category(df)))
startup_add_disruptive_column ==
    startup(4, SetCol(df, "Disruptive_Behaviour", compute_disruptive_category(df)))
startup_add_social_support_column ==
    startup(5, SetCol(df, "Social_Support_CF", compute_social_support_category(df)))
startup_add_hospital_column ==
    startup(6, SetCol(df, "Hospital_Admissions_CF", compute_hospital_category(df)))
startup_add_polypharmacy_column ==
    startup(7, SetCol(df, "Polypharmacy_CF", compute_polypharmacy_category(df)))
startup_add_financial_challenges_column ==
    startup(8, SetCol(df, "Financial_Challenges_CF",
                      compute_financial_challenges_category(df)))
startup_add_specialist_medical_service_needs_column ==
    startup(9, specialist_frame(df))
startup_add_non_medical_resource_needs_column ==
    startup(10, IF "Non_Medical_Resource_Needs_CF" \in DOMAIN df THEN df
                ELSE SetCol(df, "Non_Medical_Resource_Needs_CF",
                            compute_non_medical_resource_needs_category(df)))
startup_add_organization_of_care_column ==
    startup(11, SetCol(df, "Organization_of_Care_CF",
                       compute_organization_of_care(df)))

\* the question columns the twelve functions read
ALL_COLS ==
    Q155_cols \o Q167_cols \o Q107_cols \o Q107_rehab_cols \o ACTIVATION_COLS
      \o ALL_LUBBEN_COLS \o <<POLY_COL>> \o FINANCIAL_COLS
      \o Q185_EVENT_COLS \o <<Q185_NA_COL>> \o <<GP_COL, PC_COL, SOC_COL>>
      \o GI_COLS

StartupVals == {NaN, 0, 1, 2} \cup SentinelCodes

ALL_POS == PosOf(ALL_COLS)

Init ==
    /\ IsSplit(df, ALL_COLS, ALL_POS, StartupVals)
    /\ ret = NoFrame
    /\ pc = 0

Next ==
    \/ startup_add_FA_column
    \/ startup_add_nursing_column
    \/ startup_add_rehab_column
    \/ startup_add_activation_column
    \/ startup_add_disruptive_column
    \/ startup_add_social_support_column
    \/ startup_add_hospital_column
    \/ startup_add_polypharmacy_column
    \/ startup_add_financial_challenges_column
    \/ startup_add_specialist_medical_service_needs_column
    \/ startup_add_non_medical_resource_needs_column
    \/ startup_add_organization_of_care_column

Spec == Init /\ [][Next]_vars

\* ---- claims about Specialist Medical Service Needs (CF K) ----
\* C14: in the startup pipeline a dataset never has the CF K column without
\* the GI_Assigned column; GI_Assigned is the severity-precedence label
\* (V > IV > III > II > I) of the record, and CF K is 1 for "GI III" and
\* "GI IV", 2 for "GI V" and 0 for "GI I", "GI II" and "Unclassified".
C14_SpecialistFromGI ==
    "Specialist_Medical_Service_Needs_CF" \in DOMAIN df =>
        /\ "GI_Assigned" \in DOMAIN df
        /\ df["GI_Assigned"] = MostSevere(df)
        /\ df["GI_Assigned"] \in {"GI III", "GI IV"}
              => df["Specialist_Medical_Service_Needs_CF"] = 1
        /\ df["GI_Assigned"] = "GI V"
              => df["Specialist_Medical_Service_Needs_CF"] = 2
        /\ df["GI_Assigned"] \in {"GI I", "GI II", "Unclassified"}
              => df["Specialist_Medical_Service_Needs_CF"] = 0

\* a record that satisfies GI-IV and GI-V has got CF K = 2
C14_Witness ==
    /\ "Specialist_Medical_Service_Needs_CF" \in DOMAIN df
    /\ df["Specialist_Medical_Service_Needs_CF"] = 2
    /\ gi_iv_flag(df) /\ gi_v_flag(df)

\* ---- claims about sentinel codes, over all classifiers ----
Unusable(v) == v = NaN \/ v \in SentinelCodes

\* the label column label has been computed on a record whose columns cols
\* are all missing or sentinel codes, and it is None
Unscored(label, cols) ==
    (label \in DOMAIN df /\ \A c \in Range(cols) : Unusable(df[c]))
        => df[label] = None

\* C1: every CF label computed on a record in which each column its
\* classifier reads is missing or a sentinel code (666/777/888/999) is None.
C1_AllUnusableIsNone ==
    /\ Unscored("Functional_Assessment", Q155_cols \o Q167_cols)
    /\ Unscored("Nursing_Needs", Q107_cols)
    /\ Unscored("Rehab_Needs", Q107_rehab_cols)
    /\ Unscored("Activation_Care", ACTIVATION_COLS)
    /\ Unscored("Disruptive_Behaviour", DISRUPTIVE_COLS)
    /\ Unscored("Social_Support_CF", ALL_LUBBEN_COLS)
    /\ Unscored("Hospital_Admissions_CF", <<HOSPITAL_MAIN_COL>>)
    /\ Unscored("Polypharmacy_CF", <<POLY_COL>>)
    /\ Unscored("Financial_Challenges_CF", FINANCIAL_COLS)
    /\ Unscored("Organization_of_Care_CF", <<GP_COL, PC_COL, SOC_COL>>)
    /\ Unscored("Non_Medical_Resource_Needs_CF",
                Q185_EVENT_COLS \o <<Q185_NA_COL>>)

\* the result f(df) stored in column label is the result for the record
\* with any one sentinel code among cols replaced by a missing value
CodeIsMissing(f(_), label, cols) ==
    label \in DOMAIN df =>
        \A c \in Range(cols) :
            df[c] \in SentinelCodes => f([df EXCEPT ![c] = NaN]) = df[label]

\* the same for a GI flag, once the GI label of the record has been assigned
FlagCodeIsMissing(flag(_), cols) ==
    "GI_Assigned" \in DOMAIN df =>
        \A c \in Range(cols) :
            df[c] \in SentinelCodes => flag([df EXCEPT ![c] = NaN]) = flag(df)

\* C2: for every non-imputed classifier and every GI flag, replacing one
\* relevant column that holds 666, 777, 888 or 999 by a missing value does
\* not change the result.
C2_SentinelExcluded ==
    /\ CodeIsMissing(compute_FA_category, "Functional_Assessment",
                     Q155_cols \o Q167_cols)
    /\ CodeIsMissing(compute_nursing_category, "Nursing_Needs", Q107_cols)
    /\ CodeIsMissing(compute_rehab_category, "Rehab_Needs", Q107_rehab_cols)
    /\ CodeIsMissing(compute_activation_category, "Activation_Care",
                     ACTIVATION_COLS)
    /\ CodeIsMissing(compute_disruptive_category, "Disruptive_Behaviour",
                     DISRUPTIVE_COLS)
    /\ CodeIsMissing(compute_social_support_category, "Social_Support_CF",
                     ALL_LUBBEN_COLS)
    /\ CodeIsMissing(compute_hospital_category, "Hospital_Admissions_CF",
                     <<HOSPITAL_MAIN_COL>>)
    /\ CodeIsMissing(compute_polypharmacy_category, "Polypharmacy_CF",
                     <<POLY_COL>>)
    /\ CodeIsMissing(compute_financial_challenges_category,
                     "Financial_Challenges_CF", FINANCIAL_COLS)
    /\ CodeIsMissing(compute_organization_of_care, "Organization_of_Care_CF",
                     <<GP_COL, PC_COL, SOC_COL>>)
    /\ CodeIsMissing(compute_non_medical_resource_needs_category,
                     "Non_Medical_Resource_Needs_CF",
                     Q185_EVENT_COLS \o <<Q185_NA_COL>>)
    /\ FlagCodeIsMissing(gi_i_flag, GI_COLS)
    /\ FlagCodeIsMissing(gi_ii_flag, GI_COLS)
    /\ FlagCodeIsMissing(gi_iii_flag, GI_COLS)
    /\ FlagCodeIsMissing(gi_iv_flag, GI_COLS)
    /\ FlagCodeIsMissing(gi_v_flag, GI_COLS)

(***************************************************************************)
(* Cross tables.  Here the dataset df is a sequence of records with the    *)
(* CF label of the page (CF), the gender code Q4 and the visit count Q78;  *)
(* ret is the table the last call returned.  The tables count records, so  *)
(* one ordering of every multiset of records is enumerated.                *)
(***************************************************************************)
\* largest number of records of a dataset
MaxRecords == 3

CF_ORDER == {0, 1, 2}
GENDER_ORDER == {"Male", "Female"}
BIN_ORDER == {"0", "1-2", "3-5", "6+"}
\* a missing value (None) in a column of text labels
NoLabel == "None"

\* the labels that occur; as with the financial label, category 2 stays empty
TableCFVals == <<None, 0, 1>>
\* a record answers the gender question, the visits question or neither
TableAnswers ==
    <<[Q4 |-> NaN, Q78 |-> NaN],
      [Q4 |-> 1, Q78 |-> NaN], [Q4 |-> 2, Q78 |-> NaN],
      [Q4 |-> NaN, Q78 |-> 0], [Q4 |-> NaN, Q78 |-> 4],
      [Q4 |-> NaN, Q78 |-> 666]>>
NumRecordKinds == Len(TableCFVals) * Len(TableAnswers)

\* the i-th kind of record, i in 0..NumRecordKinds-1
RecordOf(i) ==
    [CF |-> TableCFVals[(i % Len(TableCFVals)) + 1],
     Q4 |-> TableAnswers[(i \div Len(TableCFVals)) + 1].Q4,
     Q78 |-> TableAnswers[(i \div Len(TableCFVals)) + 1].Q78]

\* the non-decreasing sequences of n record kinds, each at least lo
RECURSIVE SortedKinds(_, _)
SortedKinds(n, lo) ==
    IF n = 0 THEN {<<>>}
    ELSE UNION {{<<i>> \o t : t \in SortedKinds(n - 1, i)} :
                   i \in lo..(NumRecordKinds - 1)}

IsDataset(d) ==
    \E n \in 0..MaxRecords :
        \E t \in SortedKinds(n, 0) : d = [k \in 1..n |-> RecordOf(t[k])]

\* sum of f[x] over the finite set S
RECURSIVE Sum(_, _)
Sum(f, S) ==
    IF S = {} THEN 0
    ELSE LET x == CHOOSE y \in S : TRUE
         IN  f[x] + Sum(f, S \ {x})

\* the number of records of d that satisfy P
Size(d, P(_)) == Cardinality({i \in DOMAIN d : P(d[i])})

\* n / total * 100 as an exact quotient num / den
Percent(n, total) == [num |-> n * 100, den |-> total]

\* the number of tenths that f"{n / denom * 100:.1f}" shows (denom > 0);
\* a tie goes to the even tenth
pct_1f(n, denom) ==
    LET q == (n * 1000) \div denom
        r == (n * 1000) % denom
    IN  IF 2 * r > denom \/ (2 * r = denom /\ q % 2 = 1) THEN q + 1 ELSE q

\* add_categorical_labels: Gender_Label from Q4 with {1: "Male", 2: "Female"}
Gender_Label(rec) ==
    LET v == _to_int(rec.Q4)
    IN  IF v = 1 THEN "Male" ELSE IF v = 2 THEN "Female" ELSE NoLabel

\* build_gp_visits.to_num: 666, 777, negative and missing counts are None
to_num(x) ==
    LET v == _to_int(x)
    IN  IF v = None \/ v \in {666, 777} \/ v < 0 THEN None ELSE v

\* add_visit_bins.bin_it on the GP_Visits value
bin_it(v) ==
    IF isna(v) THEN NoLabel
    ELSE IF v = 0 THEN "0"
    ELSE IF 1 <= v /\ v <= 2 THEN "1-2"
    ELSE IF 3 <= v /\ v <= 5 THEN "3-5"
    ELSE "6+"

GP_Visits_Bin(rec) == bin_it(to_num(rec.Q78))

\* ---- row-wise tables: percent of a CF category ----
\* the record is kept by dropna() and the two isin() filters
rowwise_kept(rec) ==
    /\ ~isna(rec.CF) /\ Gender_Label(rec) # NoLabel
    /\ rec.CF \in CF_ORDER
    /\ Gender_Label(rec) \in GENDER_ORDER

\* every percentage taken of all kept records
cf_distribution_rowwise_by_group_overall(d) ==
    LET n == [k \in CF_ORDER \X GENDER_ORDER |->
                 Size(d, LAMBDA rec : rowwise_kept(rec) /\ rec.CF = k[1]
                                        /\ Gender_Label(rec) = k[2])]
        total == Size(d, rowwise_kept)
    IN  IF Size(d, rowwise_kept) = 0 THEN <<>>
        ELSE [k \in CF_ORDER \X GENDER_ORDER |->
                 [n |-> n[k],
                  cf_total |-> total,
                  Percent |-> Percent(n[k], total)]]

\* the counts table of cf_distribution_rowwise_by_group(df_demo, cf_col,
\* "Gender_Label", [0, 1, 2], ["Male", "Female"]): one row per (CF, Group)
\* of the two categoricals
cf_distribution_rowwise_by_group(d) ==
    LET n == [k \in CF_ORDER \X GENDER_ORDER |->
                 Size(d, LAMBDA rec : rowwise_kept(rec) /\ rec.CF = k[1]
                                        /\ Gender_Label(rec) = k[2])]
        cf_total == [c \in CF_ORDER |-> Sum(n, {c} \X GENDER_ORDER)]
    IN  IF Size(d, rowwise_kept) = 0 THEN <<>>
        ELSE [k \in CF_ORDER \X GENDER_ORDER |->
                 [n |-> n[k],
                  cf_total |-> cf_total[k[1]],
                  Percent |-> Percent(n[k], cf_total[k[1]])]]

\* the record is kept by dropna() on the CF and the GP_Visits_Bin column
gp_kept(rec) == ~isna(rec.CF) /\ GP_Visits_Bin(rec) # NoLabel

\* the counts table of gp_visits_by_cf_group(df, cf_col, cf_order=[0, 1, 2]):
\* one row per (CF, bin) that occurs
gp_visits_by_cf_group(d) ==
    LET pairs == {<<d[i].CF, GP_Visits_Bin(d[i])>> : i \in {j \in DOMAIN d : gp_kept(d[j])}}
        Count == [k \in pairs |->
                     Size(d, LAMBDA rec : gp_kept(rec) /\ rec.CF = k[1]
                                            /\ GP_Visits_Bin(rec) = k[2])]
        Total_CF == [c \in {k[1] : k \in pairs} |->
                        Sum(Count, {k \in pairs : k[1] = c})]
    IN  [k \in pairs |->
            [n |-> Count[k],
             cf_total |-> Total_CF[k[1]],
             Percent |-> Percent(Count[k], Total_CF[k[1]])]]

\* ---- column-wise tables: percent of a demographic group ----
\* the denominators counted over the scored records only
cf_distribution_group_cf_on_y_scored(d) ==
    LET group_total ==
            [g \in GENDER_ORDER |->
                LET t == Size(d, LAMBDA rec : Gender_Label(rec) = g /\ rec.CF \in CF_ORDER)
                IN  IF t = 0 THEN NaN ELSE t]
        n == [k \in CF_ORDER \X GENDER_ORDER |->
                 Size(d, LAMBDA rec : ~isna(rec.CF) /\ Gender_Label(rec) = k[2]
                                        /\ rec.CF = k[1])]
    IN  [k \in CF_ORDER \X GENDER_ORDER |->
            [n |-> n[k],
             group_total |-> group_total[k[2]],
             Percent |-> IF ~isna(group_total[k[2]]) /\ group_total[k[2]] > 0
                         THEN Percent(n[k], group_total[k[2]])
                         ELSE Percent(0, 1)]]

\* the counts table of cf_distribution_group_cf_on_y(df_demo, cf_col,
\* "Gender_Label", [0, 1, 2], ["Male", "Female"]): one row per combination;
\* group_total is missing for a group without records, Percent is then 0.0
cf_distribution_group_cf_on_y(d) ==
    LET group_total ==
            [g \in GENDER_ORDER |->
                LET t == Size(d, LAMBDA rec : Gender_Label(rec) = g)
                IN  IF t = 0 THEN NaN ELSE t]
        n == [k \in CF_ORDER \X GENDER_ORDER |->
                 Size(d, LAMBDA rec : ~isna(rec.CF) /\ Gender_Label(rec) = k[2]
                                        /\ rec.CF = k[1])]
    IN  [k \in CF_ORDER \X GENDER_ORDER |->
            [n |-> n[k],
             group_total |-> group_total[k[2]],
             Percent |-> IF ~isna(group_total[k[2]]) /\ group_total[k[2]] > 0
                         THEN Percent(n[k], group_total[k[2]])
                         ELSE Percent(0, 1)]]

\* the gender columns of build_cf_matrix_row_pct_n_table(df_demo, cf_col,
\* category_order=[0, 1, 2]): N is the total in the header of the column,
\* pct the tenths of a percent the cell shows, None for the cell "-"
build_cf_matrix_row_pct_n_table(d) ==
    LET gender_totals ==
            [g \in GENDER_ORDER |-> Size(d, LAMBDA rec : Gender_Label(rec) = g)]
        n == [k \in CF_ORDER \X GENDER_ORDER |->
                 Size(d, LAMBDA rec : rec.CF = k[1] /\ Gender_Label(rec) = k[2])]
    IN  [k \in CF_ORDER \X GENDER_ORDER |->
            [n |-> n[k],
             N |-> gender_totals[k[2]],
             pct |-> IF gender_totals[k[2]] <= 0 THEN None
                     ELSE pct_1f(n[k], gender_totals[k[2]])]]

cf_distribution_group_cf_on_y_call ==
    /\ ret' = [table |-> "cf_on_y", rows |-> cf_distribution_group_cf_on_y(df)]
    /\ UNCHANGED <<df, pc>>

build_cf_matrix_row_pct_n_table_call ==
    /\ ret' = [table |-> "matrix", rows |-> build_cf_matrix_row_pct_n_table(df)]
    /\ UNCHANGED <<df, pc>>

\* ---- CF x utilization, one table per question (here Q78) ----
\* the N written into the header of the "Total" column
TOTAL_HEADER_N == 2499

UTIL_BINS == {"0 visits", "1-2 visits", "3-5 visits", "6+ visits"}

\* to_bin with bins = (2, 5), on a GP_Visits value
to_bin(x) ==
    LET v0 == IF isna(x) \/ x = Str THEN 0 ELSE x
        v == IF v0 \in {666, 777} THEN 0 ELSE v0
    IN  IF v <= 0 THEN "0 visits"
        ELSE IF 1 <= v /\ v <= 2 THEN "1-2 visits"
        ELSE IF 2 + 1 <= v /\ v <= 5 THEN "3-5 visits"
        ELSE "6+ visits"

\* the body rows of build_cf_x_utilization_binned_tables_per_question(
\* df_demo, cf_col, category_order=[0, 1, 2], util_qcodes=["Q78"],
\* show_pct=True): per category the "Total" cell and the four bin cells,
\* each with the tenths of a percent and the n it shows
build_cf_x_utilization_binned_tables_per_question(d) ==
    LET overall_n == Size(d, LAMBDA rec : rec.CF \in CF_ORDER)
        n_cat == [c \in CF_ORDER |-> Size(d, LAMBDA rec : rec.CF = c)]
        denom == n_cat
        counts == [k \in CF_ORDER \X UTIL_BINS |->
                      Size(d, LAMBDA rec : rec.CF = k[1]
                                             /\ to_bin(to_num(rec.Q78)) = k[2])]
    IN  [c \in CF_ORDER |->
            [Total |-> [pct |-> IF overall_n > 0 THEN pct_1f(n_cat[c], overall_n)
                                ELSE 0,
                        n |-> n_cat[c]],
             bins |-> [b \in UTIL_BINS |->
                          [pct |-> IF denom[c] > 0
                                   THEN pct_1f(counts[<<c, b>>], denom[c]) ELSE 0,
                           n |-> counts[<<c, b>>]]]]]

build_cf_x_utilization_binned_tables_per_question_call ==
    /\ ret' = [table |-> "utilization", header_N |-> TOTAL_HEADER_N,
               rows |-> build_cf_x_utilization_binned_tables_per_question(df)]
    /\ UNCHANGED <<df, pc>>

cf_distribution_rowwise_by_group_call ==
    /\ ret' = [table |-> "rowwise", rows |-> cf_distribution_rowwise_by_group(df)]
    /\ UNCHANGED <<df, pc>>

gp_visits_by_cf_group_call ==
    /\ ret' = [table |-> "gp_visits", rows |-> gp_visits_by_cf_group(df)]
    /\ UNCHANGED <<df, pc>>

InitTables ==
    /\ IsDataset(df)
    /\ ret = NoFrame
    /\ pc = 0

NextTables ==
    \/ cf_distribution_rowwise_by_group_call
    \/ gp_visits_by_cf_group_call
    \/ cf_distribution_group_cf_on_y_call
    \/ build_cf_matrix_row_pct_n_table_call
    \/ build_cf_x_utilization_binned_tables_per_question_call

SpecTables == InitTables /\ [][NextTables]_vars

\* ---- claims about the cross tables ----
IsTable(name) == ret # NoFrame /\ ret.table = name

\* the rows of category c of the returned table
RowOf(c) == {k \in DOMAIN ret.rows : k[1] = c}

\* the cells of category c hold m records in all and their percentages,
\* taken of one common total, add up to 100
RowAddsUp(c, m) ==
    /\ RowOf(c) # {}
    /\ Sum([k \in RowOf(c) |-> ret.rows[k].n], RowOf(c)) = m
    /\ \E den \in 1..MaxRecords + 1 :
          /\ \A k \in RowOf(c) : ret.rows[k].Percent.den = den
          /\ Sum([k \in RowOf(c) |-> ret.rows[k].Percent.num], RowOf(c))
                = 100 * den

\* C18: in the table of cf_distribution_rowwise_by_group and in the one of
\* gp_visits_by_cf_group, for every CF category with at least one record
\* whose group value is not missing, the counts of the row add up to the
\* number of records of the category with a non-missing group value and the
\* percentages of the row add up to 100.
C18_RowwiseCrosstab ==
    /\ IsTable("rowwise") =>
          \A c \in CF_ORDER :
              LET m == Size(df, LAMBDA rec : rec.CF = c /\ Gender_Label(rec) # NoLabel)
              IN  m > 0 => RowAddsUp(c, m)
    /\ IsTable("gp_visits") =>
          \A c \in CF_ORDER :
              LET m == Size(df, LAMBDA rec : rec.CF = c /\ GP_Visits_Bin(rec) # NoLabel)
              IN  m > 0 => RowAddsUp(c, m)

\* a row-wise table with a category of one man and one woman, made from a
\* dataset with a third record of that category without a gender
C18_Witness ==
    /\ IsTable("rowwise") /\ DOMAIN ret.rows # {}
    /\ \E c \in CF_ORDER :
          /\ ret.rows[<<c, "Male">>].n = 1 /\ ret.rows[<<c, "Female">>].n = 1
          /\ \E i \in DOMAIN df : df[i].CF = c /\ Gender_Label(df[i]) = NoLabel

\* the numbers of records of group g, and of scored records among them
InGroup(g) == Size(df, LAMBDA rec : Gender_Label(rec) = g)
ScoredInGroup(g) ==
    Size(df, LAMBDA rec : Gender_Label(rec) = g /\ rec.CF \in CF_ORDER)

\* the percentages of group g over the CF categories add up to 100
ColumnIs100(g) ==
    LET col == {k \in DOMAIN ret.rows : k[2] = g}
    IN  \E den \in 1..MaxRecords + 1 :
           /\ \A k \in col : ret.rows[k].Percent.den = den
           /\ Sum([k \in col |-> ret.rows[k].Percent.num], col) = 100 * den

C20_TotalOfSample ==
    (IsTable("utilization") /\ Len(df) > 0) =>
        \A c \in CF_ORDER :
            LET n_cat == Size(df, LAMBDA rec : rec.CF = c)
            IN  /\ ret.rows[c].Total.n = n_cat
                /\ ret.rows[c].Total.pct = pct_1f(n_cat, Len(df))

\* C21: every table built from an explicit category order and group order
\* (cf_distribution_rowwise_by_group, cf_distribution_group_cf_on_y,
\* gp_visits_by_cf_group) has one cell for every (category, group) pair of
\* the two orders, whatever the dataset, and the cell of a pair without
\* records holds the count 0.
C21_StableShape ==
    /\ IsTable("rowwise") =>
          /\ DOMAIN ret.rows = CF_ORDER \X GENDER_ORDER
          /\ \A k \in DOMAIN ret.rows :
                (\A i \in DOMAIN df :
                    ~(df[i].CF = k[1] /\ Gender_Label(df[i]) = k[2]))
                   => ret.rows[k].n = 0
    /\ IsTable("cf_on_y") =>
          /\ DOMAIN ret.rows = CF_ORDER \X GENDER_ORDER
          /\ \A k \in DOMAIN ret.rows :
                (\A i \in DOMAIN df :
                    ~(df[i].CF = k[1] /\ Gender_Label(df[i]) = k[2]))
                   => ret.rows[k].n = 0
    /\ IsTable("gp_visits") =>
          /\ DOMAIN ret.rows = CF_ORDER \X BIN_ORDER
          /\ \A k \in DOMAIN ret.rows :
                (\A i \in DOMAIN df :
                    ~(df[i].CF = k[1] /\ GP_Visits_Bin(df[i]) = k[2]))
                   => ret.rows[k].n = 0

(***************************************************************************)
(* Demographic and utilization columns of a one-record dataset             *)
(***************************************************************************)
\* age_order / age_levels of the layouts and tables
AGE_ORDER == {"<40", "40-65", "65-85", ">=85"}

\* demographics_helpers.to_int
to_int(x) == IF isna(x) \/ x = Str THEN None ELSE x

\* the last bin starting at 85
bin_age_from85(x) ==
    LET v == to_int(x)
    IN  IF v = None THEN NoLabel
        ELSE IF v <= 39 THEN "<40"
        ELSE IF 40 <= v /\ v <= 65 THEN "40-65"
        ELSE IF 66 <= v /\ v <= 84 THEN "65-85"
        ELSE IF v >= 85 THEN ">=85"
        ELSE NoLabel

\* add_age_bins.bin_age with the default bins ("<40", None, 39),
\* ("40-65", 40, 65), ("65-85", 66, 85), (">=85", 86, None)
bin_age(x) ==
    LET v == to_int(x)
    IN  IF v = None THEN NoLabel
        ELSE IF v <= 39 THEN "<40"
        ELSE IF 40 <= v /\ v <= 65 THEN "40-65"
        ELSE IF 66 <= v /\ v <= 85 THEN "65-85"
        ELSE IF v >= 86 THEN ">=85"
        ELSE NoLabel

\* the dataset add_age_bins(d, age_col="Q2", out_col="Age_Bin") returns
add_age_bins(d) ==
    IF "Q2" \notin DOMAIN d THEN SetCol(d, "Age_Bin", NoLabel)
    ELSE SetCol(d, "Age_Bin", bin_age(d["Q2"]))

\* the dataset build_gp_visits(d) returns (source_col="Q78")
build_gp_visits(d) ==
    IF "Q78" \notin DOMAIN d THEN SetCol(d, "GP_Visits", None)
    ELSE SetCol(d, "GP_Visits", to_num(d["Q78"]))

add_age_bins_call ==
    /\ ret' = add_age_bins(df)
    /\ UNCHANGED <<df, pc>>

build_gp_visits_call ==
    /\ ret' = build_gp_visits(df)
    /\ UNCHANGED <<df, pc>>

(***************************************************************************)
(* Datasets that lack a question column                                    *)
(***************************************************************************)
MISSING_COLS ==
    FA_COLS \o Q107_cols \o <<HOSPITAL_MAIN_COL>> \o FINANCIAL_COLS
      \o <<"Q2", "Q78">>
MISSING_POS == PosOf(MISSING_COLS)

MissingVals == {NaN, 1, 2}

\* the dataset d without the columns of A
Drop(d, A) == [c \in (DOMAIN d) \ A |-> d[c]]

\* a record over MISSING_COLS, complete or with one column absent
InitMissing ==
    /\ \E j \in 0..Len(MISSING_COLS), b1 \in MissingVals, b2 \in MissingVals :
          \E A \in {{}} \cup {{c} : c \in Range(MISSING_COLS)} :
              df = Drop(Row(MISSING_COLS, MISSING_POS, j, b1, b2, <<>>), A)
    /\ ret = NoFrame
    /\ pc = 0

NextMissing ==
    \/ add_FA_column
    \/ add_nursing_column
    \/ add_hospital_column
    \/ add_financial_challenges_column
    \/ add_age_bins_call
    \/ build_gp_visits_call

SpecMissing == InitMissing /\ [][NextMissing]_vars

\* ---- claims about absent columns ----
\* the label column label exists although a column of cols is absent
LabelledWithout(d, label, cols) ==
    label \in DOMAIN d /\ ~(Range(cols) \subseteq DOMAIN d)

\* C22: no call on a dataset that lacks a required question column raises,
\* and the label (Functional_Assessment, Nursing_Needs,
\* Hospital_Admissions_CF, Financial_Challenges_CF, Age_Bin, GP_Visits) it
\* writes for the record is None.
C22_MissingColumn ==
    /\ ret # KeyError
    /\ LabelledWithout(df, "Functional_Assessment", FA_COLS)
          => df["Functional_Assessment"] = None
    /\ LabelledWithout(df, "Nursing_Needs", Q107_cols)
          => df["Nursing_Needs"] = None
    /\ LabelledWithout(df, "Hospital_Admissions_CF", <<HOSPITAL_MAIN_COL>>)
          => df["Hospital_Admissions_CF"] = None
    /\ LabelledWithout(df, "Financial_Challenges_CF", FINANCIAL_COLS)
          => df["Financial_Challenges_CF"] = None
    /\ (ret # NoFrame /\ LabelledWithout(ret, "Age_Bin", <<"Q2">>))
          => ret["Age_Bin"] = NoLabel
    /\ (ret # NoFrame /\ LabelledWithout(ret, "GP_Visits", <<"Q78">>))
          => ret["GP_Visits"] = None

(***************************************************************************)
(* Demographic binning: age (Q2), gender (Q4), ethnicity (Q3)              *)
(***************************************************************************)
\* just_global_impressions.AGE_BIN_ORDER; "GE85" stands for the label
\* written with the sign "greater than or equal to" in front of 85
AGE_BIN_ORDER == {"<40", "40-65", "65-85", "GE85"}

_to_int_safe(x) == IF isna(x) \/ x = Str THEN None ELSE x

_age_bin_from_q2(x) ==
    LET iv == _to_int_safe(x)
    IN  IF iv = None THEN NoLabel
        ELSE IF iv < 40 THEN "<40"
        ELSE IF 40 <= iv /\ iv <= 65 THEN "40-65"
        ELSE IF 66 <= iv /\ iv <= 85 THEN "65-85"
        ELSE "GE85"

\* m.get(to_int(x), None) with {1: "Chinese", 2: "Malay", 3: "Indian",
\* 4: "Others"}
Ethnicity_Label(rec) ==
    LET v == to_int(rec.Q3)
    IN  CASE v = 1 -> "Chinese"
          [] v = 2 -> "Malay"
          [] v = 3 -> "Indian"
          [] v = 4 -> "Others"
          [] OTHER -> NoLabel

ETHNICITY_ORDER == {"Chinese", "Malay", "Indian", "Others"}

\* the dataset add_categorical_labels returns for d with the two mappings
\* of the layouts
add_categorical_labels(d) ==
    LET d1 == SetCol(d, "Gender_Label",
                     IF "Q4" \in DOMAIN d THEN Gender_Label(d) ELSE NoLabel)
    IN  SetCol(d1, "Ethnicity_Label",
               IF "Q3" \in DOMAIN d THEN Ethnicity_Label(d) ELSE NoLabel)

add_categorical_labels_call ==
    /\ ret' = add_categorical_labels(df)
    /\ UNCHANGED <<df, pc>>

\* gi_age_by_gi_table: the age bins as a categorical over AGE_BIN_ORDER
gi_age_bins(d) ==
    LET b == _age_bin_from_q2(d["Q2"])
    IN  SetCol(d, "AgeBin", IF b \in AGE_BIN_ORDER THEN b ELSE NoLabel)

gi_age_by_gi_table_call ==
    /\ ret' = gi_age_bins(df)
    /\ UNCHANGED <<df, pc>>

\* the oldest age tried
MaxAge == 100

AgeVals == {NaN, Str} \cup (0..MaxAge) \cup SentinelCodes
GenderVals == {NaN, Str, 0, 1, 2, 3} \cup SentinelCodes
EthnicityVals == {NaN, Str, 1, 2, 3, 4, 5} \cup SentinelCodes

InitDemo ==
    /\ \E q2 \in AgeVals, q4 \in GenderVals, q3 \in EthnicityVals :
          df = [c \in {"Q2", "Q3", "Q4"} |->
                   IF c = "Q2" THEN q2 ELSE IF c = "Q4" THEN q4 ELSE q3]
    /\ ret = NoFrame
    /\ pc = 0

NextDemo ==
    \/ add_age_bins_call
    \/ add_categorical_labels_call
    \/ gi_age_by_gi_table_call

SpecDemo == InitDemo /\ [][NextDemo]_vars

\* ---- claims about demographic binning ----
\* the raw value is missing, not a number, or a sentinel code
Unknown(v) == v = NaN \/ v = Str \/ v \in SentinelCodes

\* the record counts in the total of some group of the order (the isin()
\* filter of the tables)
InDenominator(label, order) == label \in order

\* C23: for a raw value that is missing, non-numeric or one of 666, 777,
\* 888, 999, add_age_bins (Q2) and add_categorical_labels (Q4, Q3) write
\* None, so the record is in no age, gender or ethnicity group and counts in
\* no demographic denominator.
C23_UnknownDemographics ==
    /\ (ret # NoFrame /\ "Age_Bin" \in DOMAIN ret /\ Unknown(df["Q2"])) =>
          /\ ret["Age_Bin"] = NoLabel
          /\ ~InDenominator(ret["Age_Bin"], AGE_ORDER)
    /\ (ret # NoFrame /\ "Gender_Label" \in DOMAIN ret /\ Unknown(df["Q4"])) =>
          /\ ret["Gender_Label"] = NoLabel
          /\ ~InDenominator(ret["Gender_Label"], GENDER_ORDER)
    /\ (ret # NoFrame /\ "Ethnicity_Label" \in DOMAIN ret /\ Unknown(df["Q3"])) =>
          /\ ret["Ethnicity_Label"] = NoLabel
          /\ ~InDenominator(ret["Ethnicity_Label"], ETHNICITY_ORDER)

\* the bin of AGE_ORDER that stands for the bin b of AGE_BIN_ORDER
SameBin(b) == IF b = "GE85" THEN ">=85" ELSE b

\* C24 as stated: for every integer age, add_age_bins and _age_bin_from_q2
\* give one of the four bins, both the same one, and it is "<40" iff
\* age < 40, "40-65" iff 40 <= age <= 65, "65-85" iff 66 <= age <= 84 and
\* the last bin iff age >= 85.
C24_AgeBins_AsStated ==
    (ret # NoFrame /\ df["Q2"] \in 0..MaxAge) =>
        LET age == df["Q2"]
            named == IF age < 40 THEN "<40"
                     ELSE IF age <= 65 THEN "40-65"
                     ELSE IF age <= 84 THEN "65-85"
                     ELSE ">=85"
        IN  /\ "Age_Bin" \in DOMAIN ret =>
                  /\ ret["Age_Bin"] \in AGE_ORDER
                  /\ ret["Age_Bin"] = SameBin(_age_bin_from_q2(age))
                  /\ ret["Age_Bin"] = named
            /\ "AgeBin" \in DOMAIN ret =>
                  /\ ret["AgeBin"] \in AGE_BIN_ORDER
                  /\ SameBin(ret["AgeBin"]) = bin_age(age)
                  /\ SameBin(ret["AgeBin"]) = named

\* C24 amended: for every integer age, add_age_bins and _age_bin_from_q2
\* give one of the four bins, both the same one, and it is "<40" iff
\* age < 40, "40-65" iff 40 <= age <= 65, "65-85" iff 66 <= age <= 85 and
\* the last bin iff age >= 86.
C24_AgeBins ==
    (ret # NoFrame /\ df["Q2"] \in 0..MaxAge) =>
        LET age == df["Q2"]
            bin == IF "Age_Bin" \in DOMAIN ret THEN ret["Age_Bin"]
                   ELSE IF "AgeBin" \in DOMAIN ret THEN SameBin(ret["AgeBin"])
                   ELSE SameBin(_age_bin_from_q2(age))
        IN  /\ "Age_Bin" \in DOMAIN ret =>
                  /\ ret["Age_Bin"] \in AGE_ORDER
                  /\ ret["Age_Bin"] = SameBin(_age_bin_from_q2(age))
            /\ "AgeBin" \in DOMAIN ret =>
                  /\ ret["AgeBin"] \in AGE_BIN_ORDER
                  /\ SameBin(ret["AgeBin"]) = bin_age(age)
            /\ bin = "<40" <=> age < 40
            /\ bin = "40-65" <=> (40 <= age /\ age <= 65)
            /\ bin = "65-85" <=> (66 <= age /\ age <= 85)
            /\ bin = ">=85" <=> age >= 86

\* the age 85 has been put in the bin "65-85" by add_age_bins
C24_Witness ==
    /\ ret # NoFrame /\ "Age_Bin" \in DOMAIN ret
    /\ df["Q2"] = 85 /\ ret["Age_Bin"] = "65-85"

(***************************************************************************)
(* Utilization binning of one record: the visits cleaning step, the fine   *)
(* bins of the GI charts and the coarse bins of the CF tables              *)
(***************************************************************************)
\* global_impressions.UTIL_BIN_ORDER: "0", "1", ..., "10", "11+"
UTIL_BIN_ORDER == {"0"} \cup {ToString(i) : i \in 1..10} \cup {"11+"}

\* global_impressions.bin_util_value
bin_util_value(x) ==
    IF isna(x) THEN NoLabel
    ELSE IF x = Str THEN NoLabel
    ELSE IF x <= 0 THEN "0"
    ELSE IF 1 <= x /\ x <= 10 THEN ToString(x)
    ELSE "11+"

\* the counts of util_counts_long_for_gi(df, gi_mask, "Q78") for the
\* one-record dataset d and the mask value in_gi: one row per bin and group
util_counts_long_for_gi(d, in_gi) ==
    LET UtilBin == bin_util_value(d["Q78"])
        Group == IF in_gi THEN "In GI" ELSE "Not in GI"
    IN  [k \in UTIL_BIN_ORDER \X {"In GI", "Not in GI"} |->
            IF UtilBin # NoLabel /\ k = <<UtilBin, Group>> THEN 1 ELSE 0]

util_counts_long_for_gi_call ==
    /\ \E in_gi \in BOOLEAN :
          ret' = [table |-> "fine", rows |-> util_counts_long_for_gi(df, in_gi)]
    /\ UNCHANGED <<df, pc>>

\* the per-question table of the one-record dataset
utilization_table_call ==
    /\ ret' = [table |-> "utilization", header_N |-> TOTAL_HEADER_N,
               rows |-> build_cf_x_utilization_binned_tables_per_question(<<df>>)]
    /\ UNCHANGED <<df, pc>>

\* the largest ordinary visit count tried
MaxVisits == 12

VisitVals == {NaN, Str} \cup (0..MaxVisits) \cup SentinelCodes

InitUtil ==
    /\ \E cf \in {None, 0, 1, 2}, q78 \in VisitVals :
          df = [c \in {"CF", "Q78"} |-> IF c = "CF" THEN cf ELSE q78]
    /\ ret = NoFrame
    /\ pc = 0

NextUtil ==
    \/ build_gp_visits_call
    \/ util_counts_long_for_gi_call
    \/ utilization_table_call

SpecUtil == InitUtil /\ [][NextUtil]_vars

\* ---- claims about utilization binning ----
\* C25: for a raw visit count of 666 or 777, build_gp_visits writes None,
\* the fine bins of util_counts_long_for_gi hold the record in no bin, and
\* the per-question CF table counts the record in the bin "0 visits".
C25_UtilizationSentinels ==
    (ret # NoFrame /\ df["Q78"] \in {666, 777}) =>
        /\ "GP_Visits" \in DOMAIN ret => ret["GP_Visits"] = None
        /\ ("table" \in DOMAIN ret /\ ret.table = "fine") =>
              /\ bin_util_value(df["Q78"]) = NoLabel
              /\ \A k \in DOMAIN ret.rows : ret.rows[k] = 0
        /\ ("table" \in DOMAIN ret /\ ret.table = "utilization"
              /\ df["CF"] \in CF_ORDER) =>
              /\ ret.rows[df["CF"]].bins["0 visits"].n = 1
              /\ \A b \in UTIL_BINS \ {"0 visits"} :
                    ret.rows[df["CF"]].bins[b].n = 0

(***************************************************************************)
(* The twelve add_<CF>_column functions called on a dataset object         *)
(***************************************************************************)
CF_LABEL_COLS ==
    {"Functional_Assessment", "Nursing_Needs", "Rehab_Needs", "Activation_Care",
     "Disruptive_Behaviour", "Social_Support_CF", "Hospital_Admissions_CF",
     "Polypharmacy_CF", "Financial_Challenges_CF",
     "Specialist_Medical_Service_Needs_CF", "Non_Medical_Resource_Needs_CF",
     "Organization_of_Care_CF"}

\* calls are made on a dataset that holds fewer than MaxLabels label columns
MaxLabels == 3

AddVals == {NaN, 0, 1, 2, 777}

InitAdd ==
    /\ \E b \in AddVals : df = [c \in Range(ALL_COLS) |-> b]
    /\ ret = NoFrame
    /\ pc = 0

NextAdd ==
    \/ Cardinality(DOMAIN df \cap CF_LABEL_COLS) < MaxLabels /\ add_FA_column
    \/ Cardinality(DOMAIN df \cap CF_LABEL_COLS) < MaxLabels /\ add_nursing_column
    \/ Cardinality(DOMAIN df \cap CF_LABEL_COLS) < MaxLabels /\ add_rehab_column
    \/ Cardinality(DOMAIN df \cap CF_LABEL_COLS) < MaxLabels /\ add_activation_column
    \/ Cardinality(DOMAIN df \cap CF_LABEL_COLS) < MaxLabels /\ add_disruptive_column
    \/ Cardinality(DOMAIN df \cap CF_LABEL_COLS) < MaxLabels
          /\ add_social_support_column
    \/ Cardinality(DOMAIN df \cap CF_LABEL_COLS) < MaxLabels /\ add_hospital_column
    \/ Cardinality(DOMAIN df \cap CF_LABEL_COLS) < MaxLabels
          /\ add_polypharmacy_column
    \/ Cardinality(DOMAIN df \cap CF_LABEL_COLS) < MaxLabels
          /\ add_financial_challenges_column
    \/ Cardinality(DOMAIN df \cap CF_LABEL_COLS) < MaxLabels
          /\ add_non_medical_resource_needs_column
    \/ Cardinality(DOMAIN df \cap CF_LABEL_COLS) < MaxLabels
          /\ add_organization_of_care_column
    \/ Cardinality(DOMAIN df \cap CF_LABEL_COLS) < MaxLabels
          /\ add_specialist_medical_service_needs_column

SpecAdd == InitAdd /\ [][NextAdd]_vars

\* ---- claims about the dataset object passed in ----
\* C26: every call of an add_<CF>_column function returns a dataset that
\* holds the label column of the function and leaves the dataset it was
\* given with the columns and values it had before the call.
C26_AddsToCopy ==
    [][/\ df' = df
       /\ ret' # NoFrame
       /\ DOMAIN ret' \cap CF_LABEL_COLS # {}]_vars


(***************************************************************************)
(* Page requests.  app.py 293-329: render_page(pathname) hands the         *)
(* process-wide df to the layout of the page.  Here ret is what the        *)
(* callbacks hold: the pathname and the dataset of the last answered       *)
(* request, and the columns that requests still running have evaluated     *)
(* and not yet assigned.                                                   *)
(***************************************************************************)
PATHS ==
    {"/", "/gi", "/fa", "/nursing", "/rehab", "/organization", "/activation",
     "/disruptive", "/social-support", "/polypharmacy", "/hospital",
     "/financial", "/specialist", "/non-medical", "/gi-1-healthy",
     "/gi-2-chronic-asymptomatic", "/gi-3-chronic-stable",
     "/gi-4-long-decline", "/gi-5-limited-reserve",
     "/healthcare-utilization-value-counts", "/gi-vs-cfs", "/no-such-page"}

\* the columns evaluated by running requests
InFlight == IF "inflight" \in DOMAIN ret THEN ret.inflight ELSE <<>>

\* most requests for /polypharmacy running at once
MaxRequests == 2

\* the sequence s without its i-th element
Remove(s, i) == [j \in 1..(Len(s) - 1) |-> IF j < i THEN s[j] ELSE s[j + 1]]

\* "if <label> not in df.columns: df = add_<CF>_column(df)" of a layout
ensure(d, label, value) ==
    IF label \in DOMAIN d THEN d ELSE SetCol(d, label, value)

\* the process-wide dataset after the layout of pathname has run on d; the
\* layouts not listed work on copies of d only
layout_df(pathname, d) ==
    CASE pathname = "/fa" ->
           ensure(d, "Functional_Assessment", compute_FA_category(d))
      [] pathname = "/activation" ->
           ensure(d, "Activation_Care", compute_activation_category(d))
      [] pathname = "/social-support" ->
           ensure(d, "Social_Support_CF", compute_social_support_category(d))
      [] pathname = "/financial" ->
           ensure(d, "Financial_Challenges_CF",
                  compute_financial_challenges_category(d))
      [] pathname = "/non-medical" ->
           ensure(d, "Non_Medical_Resource_Needs_CF",
                  compute_non_medical_resource_needs_category(d))
      [] OTHER -> d

\* the dataset the layout of pathname draws its tables from; the two static
\* pages and the 404 page draw from none
layout_data(pathname, d) ==
    CASE pathname \in {"/", "/gi", "/no-such-page"} -> NoFrame
      [] pathname = "/organization" ->
           SetCol(d, "Organization_of_Care_CF", compute_organization_of_care(d))
      [] pathname = "/specialist" -> specialist_frame(d)
      [] pathname = "/gi-vs-cfs" ->
           SetCol(d, "GI_Assigned", gi_vs_cfs_assign_gi_label(d))
      [] OTHER -> layout_df(pathname, d)

\* a request for any page but /polypharmacy, from dispatch to return
render_page ==
    /\ pc = 12
    /\ \E pathname \in PATHS \ {"/polypharmacy"} :
         /\ df' = layout_df(pathname, df)
         /\ ret' = [pathname |-> pathname,
                    children |-> layout_data(pathname, df),
                    inflight |-> InFlight]
    /\ UNCHANGED pc

\* Polypharmacy_layout, first half of line 86: the right-hand side
\* df.apply(compute_polypharmacy_category, axis=1) is evaluated
Polypharmacy_layout_apply ==
    /\ pc = 12
    /\ Len(InFlight) < MaxRequests
    /\ ret' = [pathname |-> IF "pathname" \in DOMAIN ret
                            THEN ret.pathname ELSE "",
               children |-> IF "children" \in DOMAIN ret
                            THEN ret.children ELSE NoFrame,
               inflight |-> Append(InFlight, compute_polypharmacy_category(df))]
    /\ UNCHANGED <<df, pc>>

\* the same request writing a second column, the imputed one, in place
Polypharmacy_layout_setitem_imputed ==
    /\ pc = 12
    /\ \E i \in DOMAIN InFlight :
         /\ df' = polypharmacy_frame_imputed(
                      SetCol(df, "Polypharmacy_CF", InFlight[i]))
         /\ ret' = [pathname |-> "/polypharmacy",
                    children |-> df',
                    inflight |-> Remove(InFlight, i)]
    /\ UNCHANGED pc

\* Polypharmacy_layout, second half of line 86: the evaluated column is
\* assigned to df["Polypharmacy_CF"] of the process-wide dataset, and the
\* page is built from it
Polypharmacy_layout_setitem ==
    /\ pc = 12
    /\ \E i \in DOMAIN InFlight :
         /\ df' = SetCol(df, "Polypharmacy_CF", InFlight[i])
         /\ ret' = [pathname |-> "/polypharmacy",
                    children |-> df',
                    inflight |-> Remove(InFlight, i)]
    /\ UNCHANGED pc

PageVals == {NaN, 1, 2, 777}

InitPages ==
    /\ IsSplit(df, ALL_COLS, ALL_POS, PageVals)
    /\ ret = NoFrame
    /\ pc = 0

NextPages ==
    \/ Next
    \/ render_page
    \/ Polypharmacy_layout_apply
    \/ Polypharmacy_layout_setitem

SpecPages == InitPages /\ [][NextPages]_vars

\* C27: once the twelve startup lines have run, no step of any page request,
\* in any order and with requests for /polypharmacy running in between,
\* changes a column or a cell of the process-wide dataset.
C27_ReadOnlyAcrossRequests ==
    [][pc = 12 => df' = df]_vars

\* a /polypharmacy request has assigned its column while another one is
\* between its evaluation and its assignment
C27_Witness ==
    /\ pc = 12
    /\ "pathname" \in DOMAIN ret
    /\ ret.pathname = "/polypharmacy"
    /\ ret.inflight # <<>>
    /\ ret.children = df


(***************************************************************************)
(* Global Impressions: the stepwise reducer                                *)
(* (just_global_impressions.py; its five flag functions are the ones of    *)
(* global_impressions.py, line for line)                                   *)
(***************************************************************************)
\* _step_promote on the one record: the label after the step and the
\* number of records promoted by it
_step_promote(label, from_labels, to_label, to_mask) ==
    LET promotable == label \in from_labels /\ to_mask
    IN  [label |-> IF promotable THEN to_label ELSE label,
         n_promoted |-> IF promotable THEN 1 ELSE 0]

\* the stepwise reducer with every step open to an unclassified record
compute_stepwise_escalation_labels_open(d) ==
    LET u == compute_unique_gi_labels(d)
    IN  [labels |-> u,
         summary |-> <<IF u = "GI II" THEN 1 ELSE 0, IF u = "GI III" THEN 1 ELSE 0,
                       IF u = "GI IV" THEN 1 ELSE 0, IF u = "GI V" THEN 1 ELSE 0>>]

\* compute_stepwise_escalation_labels on the one record of d: the label and
\* the "Promoted this step" column of the summary
compute_stepwise_escalation_labels(d) ==
    LET m5 == gi_v_flag(d)
        m4 == gi_iv_flag(d)
        m3 == gi_iii_flag(d)
        m2 == gi_ii_flag(d)
        healthy == /\ d["Q124"] = 2
                   /\ d["Q126"] = 2
                   /\ d["Q128"] = 2
                   /\ d["Q129"] = 2
                   /\ d["Q130"] = 2
        m1 == healthy /\ ~m4
        labels == IF m1 THEN "GI I" ELSE "Unclassified"
        s2 == _step_promote(labels, {"GI I"}, "GI II", m2)
        s3 == _step_promote(s2.label, {"GI I", "GI II"}, "GI III", m3)
        s4 == _step_promote(s3.label, {"GI I", "GI II", "GI III"}, "GI IV", m4)
        s5 == _step_promote(s4.label, {"GI I", "GI II", "GI III", "GI IV"},
                            "GI V", m5)
    IN  [labels |-> s5.label,
         summary |-> <<s2.n_promoted, s3.n_promoted, s4.n_promoted,
                       s5.n_promoted>>]

\* gi_stepwise_escalation_chart(df), line 241
compute_stepwise_escalation_labels_call ==
    /\ ret' = compute_stepwise_escalation_labels(df)
    /\ UNCHANGED <<df, pc>>

\* app.py line 35 on its own: the global df is rebound to the dataset with
\* GI_Assigned and the CF K column
rebind_add_specialist_medical_service_needs_column ==
    /\ "GI_Assigned" \notin DOMAIN df
    /\ df' = specialist_frame(df)
    /\ ret' = df'
    /\ UNCHANGED pc

\* Records for the reducers: every group of question columns holds one
\* value, the groups vary independently.
ReducerRecord(q96, q142, s0, q129, cog, lt, nlt, q124, h) ==
    [c \in Range(GI_COLS) |->
        CASE c = "Q96" -> q96
          [] c = "Q103" -> NaN
          [] c = "Q142" -> q142
          [] c = "S0" -> s0
          [] c = "Q129" -> q129
          [] c \in Range(GI_IV_COG_COLS) -> cog
          [] c \in Range(GI_III_LT_COLS) -> lt
          [] c \in Range(GI_II_NLT_COLS) -> nlt
          [] c = "Q124" -> q124
          [] OTHER -> h]

InitReducers ==
    /\ \E q96 \in {NaN, 1, 2, 777}, q142 \in {NaN, 1, 2, 3}, s0 \in {1, 2},
          q129 \in {1, 2}, cog \in {NaN, 1, 2}, lt \in {1, 2}, nlt \in {1, 2},
          q124 \in {1, 2}, h \in {2, 999} :
         df = ReducerRecord(q96, q142, s0, q129, cog, lt, nlt, q124, h)
    /\ ret = NoFrame
    /\ pc = 0

NextReducers ==
    \/ compute_stepwise_escalation_labels_call
    \/ add_unique_gi_column
    \/ rebind_add_specialist_medical_service_needs_column

SpecReducers == InitReducers /\ [][NextReducers]_vars

\* the label the stepwise reducer returned, when the last call was that one
IsStepwise == ret # NoFrame /\ "labels" \in DOMAIN ret

\* C28: for a record that satisfies GI-I (healthy and not GI-IV) the
\* stepwise reducer and the severity-precedence reducer give the same label;
\* for a record that does not, the stepwise label is "Unclassified"; the two
\* labels differ exactly when GI-I is false and one of GI-II..GI-V is true;
\* the stepwise label is never "GI IV".
C28_ReducersDiffer ==
    IsStepwise =>
        LET s == ret.labels
            u == compute_unique_gi_labels(df)
        IN  /\ gi_i_flag(df) => s = u
            /\ ~gi_i_flag(df) => s = "Unclassified"
            /\ s # u <=> (/\ ~gi_i_flag(df)
                          /\ (gi_ii_flag(df) \/ gi_iii_flag(df)
                                \/ gi_iv_flag(df) \/ gi_v_flag(df)))
            /\ s # "GI IV"

\* the reducers disagree on a record: severity precedence says GI V, the
\* stepwise reducer leaves it unclassified
C28_Witness ==
    /\ IsStepwise
    /\ ret.labels = "Unclassified"
    /\ compute_unique_gi_labels(df) = "GI V"


\* C30: on every record the if-chain global_impressions.assign_gi_label and
\* the masks of compute_unique_gi_labels give the same label, so the
\* GI_Assigned column of the dataset add_unique_gi_column returns, reused
\* from add_specialist_medical_service_needs_column or computed afresh, is
\* the label a fresh computation gives.
C30_ReducersAgree ==
    /\ assign_gi_label(df) = compute_unique_gi_labels(df)
    /\ (ret # NoFrame /\ "GI_Assigned" \in DOMAIN ret) =>
          ret["GI_Assigned"] = compute_unique_gi_labels(df)

\* add_unique_gi_column was given the dataset that already carries the
\* GI_Assigned of the if-chain and returned it as it is, for a record on
\* which the GI-IV and GI-V flags both hold
C30_Witness ==
    /\ "GI_Assigned" \in DOMAIN df
    /\ ret = df
    /\ gi_iv_flag(df) /\ gi_v_flag(df)
    /\ ret["GI_Assigned"] = "GI V"


\* ---- the imputed label against the scored one ----
\* imputed is the label of an "_Imputed" column and scored the label the
\* non-imputed function gives the same record
SameOrFilled(imputed, scored) ==
    /\ scored # None => imputed = scored
    /\ scored = None => imputed \in {None, 0}

\* C29: the imputed label of a record equals its non-imputed label when
\* that one is not None, and is None or 0 when it is None (Nursing_Needs,
\* Rehab_Needs, Polypharmacy_CF, Financial_Challenges_CF); the imputed
\* financial label equals the non-imputed one on every record.
C29_ImputationKeepsLabel ==
    ret # NoFrame =>
        /\ "Nursing_Needs_Imputed" \in DOMAIN ret =>
              SameOrFilled(ret["Nursing_Needs_Imputed"],
                           compute_nursing_category(df))
        /\ "Rehab_Needs_Imputed" \in DOMAIN ret =>
              SameOrFilled(ret["Rehab_Needs_Imputed"],
                           compute_rehab_category(df))
        /\ "Polypharmacy_CF_Imputed" \in DOMAIN ret =>
              SameOrFilled(ret["Polypharmacy_CF_Imputed"],
                           compute_polypharmacy_category(df))
        /\ "Financial_Challenges_CF_Imputed" \in DOMAIN ret =>
              /\ SameOrFilled(ret["Financial_Challenges_CF_Imputed"],
                              compute_financial_challenges_category(df))
              /\ ret["Financial_Challenges_CF_Imputed"]
                    = compute_financial_challenges_category(df)

\* a 999 among the nursing tasks was imputed to 0 next to a mentioned task:
\* the label is 1 with and without the imputation
C29_Witness ==
    /\ ret # NoFrame /\ "Nursing_Needs_Imputed" \in DOMAIN ret
    /\ \E c \in Range(Q107_cols) : df[c] = 999 /\ ret[c] = 0
    /\ compute_nursing_category(df) = 1
    /\ ret["Nursing_Needs_Imputed"] = 1

====
